---- MODULE Spec2Model ----
(***************************************************************************)
(* A model of the xv6 file-system layer of this repository (src/fs.c,      *)
(* src/fs.h): the bitmap block allocator, the inode cache with reference   *)
(* counts, validity and sleep-locks, the tiered block map (direct, single  *)
(* indirect, double indirect), truncation and writei.                      *)
(*                                                                         *)
(* The on-disk geometry is scaled down: BSIZE is 8 bytes instead of 512,   *)
(* so that NINDIRECT = BSIZE / sizeof(uint) is 2, and NDIRECT is 1 instead *)
(* of 11.  Every formula of the code is kept in terms of these names.      *)
(***************************************************************************)
EXTENDS Integers, Sequences, FiniteSets, TLC

(***************************************************************************)
(* Geometry and sizes.                                                     *)
(***************************************************************************)
BSIZE == 8
SizeofUint == 4
NDIRECT == 1
NINDIRECT == BSIZE \div SizeofUint
MAXFILE == NDIRECT + NINDIRECT + NINDIRECT * NINDIRECT
BPB == BSIZE * 8
ROOTINO == 1
ROOTDEV == 1
NINODE == 2
NDEV == 10
CONSOLE == 1
T_DIR == 1
T_FILE == 2
T_DEV == 3
DIRSIZ == 2
\* the values of a ushort (struct dirent's inum) and of a byte
UshortRange == 65536
ByteRange == 256
\* sizeof(struct dirent): a ushort and DIRSIZ chars
SizeofDirent == 2 + DIRSIZ
\* a null struct inode pointer
NoSlot == -1
\* the chars of names and paths: 'a' is 1, 'b' is 2, '/' is Slash, 'c' is CharC,
\* NUL is 0
Slash == 3
CharC == 4
\* the slots of the inode cache where paths are resolved
PathNINODE == 4
\* the geometry of fs.h, unscaled: the block map and writei are also run on it
RealBSIZE == 512
RealNDIRECT == 11
RealNINDIRECT == RealBSIZE \div SizeofUint
RealMAXFILE == RealNDIRECT + RealNINDIRECT + RealNINDIRECT * RealNINDIRECT
\* uint arithmetic wraps at UintRange (2^30 here: TLC's integers are 32-bit signed)
UintRange == 1073741824

\* Volume sizes (sb.size, sb.ninodes) of the volumes the specifications mount.
\* MetaBlocks stands for the boot block, superblock, log, inode and bitmap blocks,
\* which mkfs marks in use.
MetaBlocks == {0}
FsSize == 9
OneFsSize == 13
BmapFsSize == 7
CacheFsSize == 3
AllocFsSize == 5
IoFsSize == 4
\* the largest file the reads and writes of SpecIO build, in bytes
IoMaxSize == 10
DirFsSize == 4
\* the most entries the directory of SpecDir grows to
DirMaxEntries == 2
PathFsSize == 4
\* the volume whose bitmap is kept in bytes: two bitmap blocks, the second one
\* used for its first bits only; the blocks below BitsLow stay in use
BitsFsSize == 66
BitsLow == 61
\* the volume written at the geometry of fs.h; the writes are of up to
\* RealSmallBlocks blocks, whole or one byte off, and of whole blocks from the
\* end of the single-indirect tier to RealMaxBlocks
RealFsSize == 152
RealSmallBlocks == 30
RealMaxBlocks == 146
\* the references the contexts own at a time, all together
MaxRefs == 3
NInodes == 3

U32(x) == x % UintRange
Min2(a, b) == IF a < b THEN a ELSE b
SetMin(S) == CHOOSE x \in S : \A y \in S : x <= y

NoPanic == "none"
NoCtx == 0
Ctx == {1, 2}

VARIABLES
  sb,        \* superblock: [size, ninodes]
  bitmap,    \* bitmap[b] = TRUE iff block b is marked in use
  disk,      \* disk[b] = the BSIZE bytes of block b
  dinode,    \* dinode[inum] = the on-disk inode
  icache,    \* icache[s] = in-memory inode slot s
  ilk,       \* ilk[s] = the context holding slot s's sleep-lock, or NoCtx
  panicked,  \* NoPanic, or the message of the panic that halted the system
  last,      \* the last step: the call it completed and what it returned
  pc,        \* pc[c] = where context c is inside a call, "idle" between calls
  loc,       \* loc[c] = the local variables of context c's call
  held,      \* held[c][s] = the references to slot s that context c owns
  loaded,    \* loaded[s] = ilock has read slot s from disk since iget last claimed it
  buflock,   \* buflock = the context holding the bitmap block's buffer, or NoCtx
  owned,     \* owned[c] = the blocks balloc returned to context c, not yet freed
  proc,      \* the current process: [sz, killed, paginaInvalida, pgdir], or NoProc
  kmem       \* the number of free physical pages in kalloc's list

cvars == <<pc, loc, held, loaded, buflock, owned>>
\* the process and the page allocator, which no operation of fs.c touches
pvars == <<proc, kmem>>
vars == <<sb, bitmap, disk, dinode, icache, ilk, panicked, last, cvars, pvars>>

\* no process: the state of proc where only fs.c runs
NoProc == [sz |-> 0]

Blocks == 0 .. (sb.size - 1)
Inums == 1 .. (sb.ninodes - 1)
\* the slots of icache.inode[]: NINODE of them, more where paths are resolved
Slots == DOMAIN icache
AddrIdx == 0 .. (NDIRECT + 1)

ZeroBlock == [i \in 0 .. (BSIZE - 1) |-> 0]
ZeroAddrs == [i \in AddrIdx |-> 0]
\* struct dinode after memset(dip, 0, sizeof(*dip))
ZeroDinode == [type |-> 0, major |-> 0, minor |-> 0, nlink |-> 0, size |-> 0,
               addrs |-> ZeroAddrs]
\* struct inode in static storage
ZeroInode == [dev |-> 0, inum |-> 0, ref |-> 0, valid |-> 0, ino |-> ZeroDinode]

(***************************************************************************)
(* The uint array view of bp->data: a[j] is the j-th little-endian 32-bit  *)
(* word of a block.                                                        *)
(***************************************************************************)
ReadUint(blk, j) ==
  blk[SizeofUint * j] + 256 * blk[SizeofUint * j + 1]
    + 65536 * blk[SizeofUint * j + 2] + 16777216 * blk[SizeofUint * j + 3]

BytePow(k) == IF k = 0 THEN 1 ELSE IF k = 1 THEN 256 ELSE IF k = 2 THEN 65536 ELSE 16777216

WriteUint(blk, j, v) ==
  [i \in DOMAIN blk |->
     IF i \div SizeofUint = j THEN (v \div BytePow(i % SizeofUint)) % 256 ELSE blk[i]]

(***************************************************************************)
(* The sequential code is written over a machine record m:                 *)
(*   m.bm, m.disk, m.din  bitmap, blocks, on-disk inodes                   *)
(*   m.ip                 the in-memory inode the call works on            *)
(*   m.panic              NoPanic or the panic message                     *)
(*   m.r                  the value returned by the last call              *)
(***************************************************************************)
Panicked(m) == m.panic # NoPanic

Machine(s) == [bm |-> bitmap, disk |-> disk, din |-> dinode, ip |-> icache[s],
               panic |-> panicked, r |-> 0]

\* balloc: the first clear bit below sb.size is set and the block zeroed.
BallocFree(m) == {b \in Blocks : ~m.bm[b]}

Balloc(m) ==
  IF BallocFree(m) = {}
  THEN [m EXCEPT !.panic = "balloc: out of blocks"]
  ELSE LET b == SetMin(BallocFree(m))
       IN [m EXCEPT !.bm[b] = TRUE, !.disk[b] = ZeroBlock, !.r = b]

\* bfree
Bfree(m, b) ==
  IF ~m.bm[b]
  THEN [m EXCEPT !.panic = "freeing free block"]
  ELSE [m EXCEPT !.bm[b] = FALSE]

\* iupdate
Iupdate(m) == [m EXCEPT !.din[m.ip.inum] = m.ip.ino]

\* if((addr = ip->addrs[k]) == 0) ip->addrs[k] = addr = balloc(ip->dev);
BmapSlot(m, k) ==
  IF m.ip.ino.addrs[k] = 0
  THEN LET a == Balloc(m)
       IN IF Panicked(a) THEN a ELSE [a EXCEPT !.ip.ino.addrs[k] = a.r]
  ELSE [m EXCEPT !.r = m.ip.ino.addrs[k]]

\* bp = bread(addr); a = bp->data; if((addr = a[j]) == 0){ a[j] = addr = balloc(); log_write(bp); }
BmapEntry(m, blk, j) ==
  IF ReadUint(m.disk[blk], j) = 0
  THEN LET a == Balloc(m)
       IN IF Panicked(a) THEN a
          ELSE [a EXCEPT !.disk[blk] = WriteUint(a.disk[blk], j, a.r)]
  ELSE [m EXCEPT !.r = ReadUint(m.disk[blk], j)]

\* mutant of BmapOuter: the outer index taken with % instead of /
BmapOuter_Mod(r) == r % NINDIRECT

\* bmap's double-indirect indices
BmapOuter(r) == r \div NINDIRECT
BmapInner(r) == r % NINDIRECT

\* bmap
Bmap(m, bn) ==
  IF bn < NDIRECT THEN BmapSlot(m, bn)
  ELSE IF bn - NDIRECT < NINDIRECT
  THEN LET m1 == BmapSlot(m, NDIRECT)
       IN IF Panicked(m1) THEN m1 ELSE BmapEntry(m1, m1.r, bn - NDIRECT)
  ELSE IF bn - NDIRECT - NINDIRECT < NINDIRECT * NINDIRECT
  THEN LET r == bn - NDIRECT - NINDIRECT
           m1 == BmapSlot(m, NDIRECT + 1)
       IN IF Panicked(m1) THEN m1
          ELSE LET m2 == BmapEntry(m1, m1.r, BmapOuter(r))
               IN IF Panicked(m2) THEN m2 ELSE BmapEntry(m2, m2.r, BmapInner(r))
  ELSE [m EXCEPT !.panic = "bmap: out of range"]

\* bfree of each block of a list, in order
RECURSIVE BfreeSeq(_, _)
BfreeSeq(m, bs) ==
  IF Panicked(m) \/ bs = <<>> THEN m
  ELSE BfreeSeq(Bfree(m, Head(bs)), Tail(bs))

\* the nonzero entries a[0..NINDIRECT-1] of an index block, in index order
RECURSIVE EntriesFrom(_, _)
EntriesFrom(blk, j) ==
  IF j >= NINDIRECT THEN <<>>
  ELSE (IF ReadUint(blk, j) # 0 THEN <<ReadUint(blk, j)>> ELSE <<>>)
         \o EntriesFrom(blk, j + 1)

\* itrunc, direct blocks: for(i = 0; i < NDIRECT; i++)
RECURSIVE ItruncDirect(_, _)
ItruncDirect(m, i) ==
  IF Panicked(m) \/ i >= NDIRECT THEN m
  ELSE IF m.ip.ino.addrs[i] # 0
  THEN ItruncDirect([Bfree(m, m.ip.ino.addrs[i]) EXCEPT !.ip.ino.addrs[i] = 0], i + 1)
  ELSE ItruncDirect(m, i + 1)

\* mutant of ItruncSingle: the entries of the single-indirect block are not freed
ItruncSingle_KeepEntries(m) ==
  IF Panicked(m) \/ m.ip.ino.addrs[NDIRECT] = 0 THEN m
  ELSE LET m2 == Bfree(m, m.ip.ino.addrs[NDIRECT])
       IN IF Panicked(m2) THEN m2 ELSE [m2 EXCEPT !.ip.ino.addrs[NDIRECT] = 0]

\* itrunc, single-indirect block
ItruncSingle(m) ==
  IF Panicked(m) \/ m.ip.ino.addrs[NDIRECT] = 0 THEN m
  ELSE LET a == m.disk[m.ip.ino.addrs[NDIRECT]]
           m1 == BfreeSeq(m, EntriesFrom(a, 0))
           m2 == IF Panicked(m1) THEN m1 ELSE Bfree(m1, m.ip.ino.addrs[NDIRECT])
       IN IF Panicked(m2) THEN m2 ELSE [m2 EXCEPT !.ip.ino.addrs[NDIRECT] = 0]

\* mutant of ItruncInner: the inner index blocks themselves are not freed
RECURSIVE ItruncInner_Leak(_, _, _)
ItruncInner_Leak(m, a, i) ==
  IF Panicked(m) \/ i >= NINDIRECT THEN m
  ELSE IF ReadUint(a, i) # 0
  THEN ItruncInner_Leak(BfreeSeq(m, EntriesFrom(m.disk[ReadUint(a, i)], 0)), a, i + 1)
  ELSE ItruncInner_Leak(m, a, i + 1)

\* itrunc, the inner index blocks a[i..NINDIRECT-1] of the double-indirect block
RECURSIVE ItruncInner(_, _, _)
ItruncInner(m, a, i) ==
  IF Panicked(m) \/ i >= NINDIRECT THEN m
  ELSE IF ReadUint(a, i) # 0
  THEN LET b == m.disk[ReadUint(a, i)]
           m1 == BfreeSeq(m, EntriesFrom(b, 0))
           m2 == IF Panicked(m1) THEN m1 ELSE Bfree(m1, ReadUint(a, i))
       IN ItruncInner(m2, a, i + 1)
  ELSE ItruncInner(m, a, i + 1)

\* itrunc, double-indirect block
ItruncDouble(m) ==
  IF Panicked(m) \/ m.ip.ino.addrs[NDIRECT + 1] = 0 THEN m
  ELSE LET a == m.disk[m.ip.ino.addrs[NDIRECT + 1]]
           m1 == ItruncInner(m, a, 0)
           m2 == IF Panicked(m1) THEN m1 ELSE Bfree(m1, m.ip.ino.addrs[NDIRECT + 1])
       IN IF Panicked(m2) THEN m2 ELSE [m2 EXCEPT !.ip.ino.addrs[NDIRECT + 1] = 0]

\* itrunc
Itrunc(m) ==
  LET m1 == ItruncDouble(ItruncSingle(ItruncDirect(m, 0)))
  IN IF Panicked(m1) THEN m1 ELSE Iupdate([m1 EXCEPT !.ip.ino.size = 0])

\* the i-th byte of the source buffer of a write: the buffer holds the bytes of
\* the sequence v, repeated when more than Len(v) bytes are written
SrcByte(v, i) == v[(i % Len(v)) + 1]

\* m = min(n - tot, BSIZE - off%BSIZE), the bytes one iteration of readi's and
\* writei's loops copies
Chunk(off, tot, n) == Min2(n - tot, BSIZE - (off % BSIZE))

\* writei's loop body after bmap: memmove(bp->data + off%BSIZE, src, m) into the
\* block m1.r that bmap returned
WriteiCopy(m1, v, off, tot, k) ==
  IF Panicked(m1) THEN m1
  ELSE [m1 EXCEPT !.disk[m1.r] =
          [i \in 0 .. (BSIZE - 1) |->
             IF i >= off % BSIZE /\ i < (off % BSIZE) + k
             THEN SrcByte(v, tot + (i - (off % BSIZE))) ELSE @[i]]]

\* writei's loop: for(tot=0; tot<n; tot+=m, off+=m, src+=m); m.r is the final off
RECURSIVE WriteiLoop(_, _, _, _, _)
WriteiLoop(m, v, off, tot, n) ==
  IF Panicked(m) THEN m
  ELSE IF tot >= n THEN [m EXCEPT !.r = off]
  ELSE WriteiLoop(WriteiCopy(Bmap(m, off \div BSIZE), v, off, tot, Chunk(off, tot, n)),
                  v, off + Chunk(off, tot, n), tot + Chunk(off, tot, n), n)

\* devsw[major].write is registered for the console only
DevswWrite(major) == major = CONSOLE

\* writei's size ceiling
WriteiCeiling == MAXFILE * BSIZE

\* mutant of Writei: the check against MAXFILE*BSIZE is missing
Writei_NoCeiling(m, v, off, n) ==
  IF m.ip.ino.type = T_DEV
  THEN IF m.ip.ino.major < 0 \/ m.ip.ino.major >= NDEV \/ ~DevswWrite(m.ip.ino.major)
       THEN [m EXCEPT !.r = -1]
       ELSE [m EXCEPT !.r = n]
  ELSE IF off > m.ip.ino.size \/ U32(off + n) < off THEN [m EXCEPT !.r = -1]
  ELSE LET w == WriteiLoop(m, v, off, 0, n)
       IN IF Panicked(w) THEN w
          ELSE IF n > 0 /\ w.r > w.ip.ino.size
          THEN [Iupdate([w EXCEPT !.ip.ino.size = w.r]) EXCEPT !.r = n]
          ELSE [w EXCEPT !.r = n]

\* mutant of Writei: a grown size is not written to the on-disk inode
Writei_NoIupdate(m, v, off, n) ==
  IF m.ip.ino.type = T_DEV
  THEN IF m.ip.ino.major < 0 \/ m.ip.ino.major >= NDEV \/ ~DevswWrite(m.ip.ino.major)
       THEN [m EXCEPT !.r = -1]
       ELSE [m EXCEPT !.r = n]
  ELSE IF off > m.ip.ino.size \/ U32(off + n) < off THEN [m EXCEPT !.r = -1]
  ELSE IF U32(off + n) > WriteiCeiling THEN [m EXCEPT !.r = -1]
  ELSE LET w == WriteiLoop(m, v, off, 0, n)
       IN IF Panicked(w) THEN w
          ELSE IF n > 0 /\ w.r > w.ip.ino.size
          THEN [w EXCEPT !.ip.ino.size = w.r, !.r = n]
          ELSE [w EXCEPT !.r = n]

\* mutant of Writei: the check of off against the size is missing
Writei_NoOffCheck(m, v, off, n) ==
  IF m.ip.ino.type = T_DEV
  THEN IF m.ip.ino.major < 0 \/ m.ip.ino.major >= NDEV \/ ~DevswWrite(m.ip.ino.major)
       THEN [m EXCEPT !.r = -1]
       ELSE [m EXCEPT !.r = n]
  ELSE IF U32(off + n) < off THEN [m EXCEPT !.r = -1]
  ELSE IF U32(off + n) > WriteiCeiling THEN [m EXCEPT !.r = -1]
  ELSE LET w == WriteiLoop(m, v, off, 0, n)
       IN IF Panicked(w) THEN w
          ELSE IF n > 0 /\ w.r > w.ip.ino.size
          THEN [Iupdate([w EXCEPT !.ip.ino.size = w.r]) EXCEPT !.r = n]
          ELSE [w EXCEPT !.r = n]

\* mutant of WriteiEnd: ip->size = off without iupdate(ip)
WriteiEnd_NoIupdate(w, n) ==
  IF Panicked(w) THEN w
  ELSE IF n > 0 /\ w.r > w.ip.ino.size
  THEN [w EXCEPT !.ip.ino.size = w.r, !.r = n]
  ELSE [w EXCEPT !.r = n]

\* writei after its loop, w.r being the final off:
\* if(n > 0 && off > ip->size){ ip->size = off; iupdate(ip); } return n;
WriteiEnd(w, n) ==
  IF Panicked(w) THEN w
  ELSE IF n > 0 /\ w.r > w.ip.ino.size
  THEN [Iupdate([w EXCEPT !.ip.ino.size = w.r]) EXCEPT !.r = n]
  ELSE [w EXCEPT !.r = n]

\* writei
Writei(m, v, off, n) ==
  IF m.ip.ino.type = T_DEV
  THEN IF m.ip.ino.major < 0 \/ m.ip.ino.major >= NDEV \/ ~DevswWrite(m.ip.ino.major)
       THEN [m EXCEPT !.r = -1]
       ELSE [m EXCEPT !.r = n]
  ELSE IF off > m.ip.ino.size \/ U32(off + n) < off THEN [m EXCEPT !.r = -1]
  ELSE IF U32(off + n) > WriteiCeiling THEN [m EXCEPT !.r = -1]
  ELSE WriteiEnd(WriteiLoop(m, v, off, 0, n), n)

\* devsw[major].read is registered for the console only
DevswRead(major) == major = CONSOLE

\* readi's loop: for(tot=0; tot<n; tot+=m, off+=m, dst+=m); m.dst collects the
\* bytes copied to dst
\* readi's loop body after bmap: memmove(dst, bp->data + off%BSIZE, m) from the
\* block m1.r that bmap returned
ReadiCopy(m1, off, k) ==
  IF Panicked(m1) THEN m1
  ELSE [m1 EXCEPT !.dst = @ \o [i \in 1 .. k |-> m1.disk[m1.r][(off % BSIZE) + i - 1]]]

RECURSIVE ReadiLoop(_, _, _, _)
ReadiLoop(m, off, tot, n) ==
  IF Panicked(m) THEN m
  ELSE IF tot >= n THEN m
  ELSE ReadiLoop(ReadiCopy(Bmap(m, off \div BSIZE), off, Chunk(off, tot, n)),
                 off + Chunk(off, tot, n), tot + Chunk(off, tot, n), n)

\* mutant of ReadiClamp: n is left as the caller passed it
ReadiClamp_Whole(size, off, n) == n

\* if(off + n > ip->size) n = ip->size - off;
ReadiClamp(size, off, n) == IF U32(off + n) > size THEN size - off ELSE n

\* readi after its loop: return n
ReadiEnd(w, n) == IF Panicked(w) THEN w ELSE [w EXCEPT !.r = n]

\* mutant of Readi: n is not clamped to the size of the file
Readi_NoClamp(m, off, n, devr) ==
  LET m0 == [bm |-> m.bm, disk |-> m.disk, din |-> m.din, ip |-> m.ip,
             panic |-> m.panic, r |-> 0, dst |-> <<>>]
  IN IF m.ip.ino.type = T_DEV
     THEN IF m.ip.ino.major < 0 \/ m.ip.ino.major >= NDEV \/ ~DevswRead(m.ip.ino.major)
          THEN [m0 EXCEPT !.r = -1]
          ELSE [m0 EXCEPT !.r = devr]
     ELSE IF off > m.ip.ino.size \/ U32(off + n) < off THEN [m0 EXCEPT !.r = -1]
     ELSE LET w == ReadiLoop(m0, off, 0, n)
          IN IF Panicked(w) THEN w ELSE [w EXCEPT !.r = n]

\* readi; devr is what the device's read callback returns.  The result carries
\* the bytes copied to dst in the field dst.
Readi(m, off, n, devr) ==
  LET m0 == [bm |-> m.bm, disk |-> m.disk, din |-> m.din, ip |-> m.ip,
             panic |-> m.panic, r |-> 0, dst |-> <<>>]
  IN IF m.ip.ino.type = T_DEV
     THEN IF m.ip.ino.major < 0 \/ m.ip.ino.major >= NDEV \/ ~DevswRead(m.ip.ino.major)
          THEN [m0 EXCEPT !.r = -1]
          ELSE [m0 EXCEPT !.r = devr]
     ELSE IF off > m.ip.ino.size \/ U32(off + n) < off THEN [m0 EXCEPT !.r = -1]
     ELSE ReadiEnd(ReadiLoop(m0, off, 0, ReadiClamp(m.ip.ino.size, off, n)),
                   ReadiClamp(m.ip.ino.size, off, n))

(***************************************************************************)
(* Blocks reachable from an in-memory inode: as a sequence, one element    *)
(* per referring slot (so that a block referred to twice appears twice).   *)
(***************************************************************************)
RECURSIVE DirectRefs(_, _)
DirectRefs(addrs, i) ==
  IF i >= NDIRECT THEN <<>>
  ELSE (IF addrs[i] # 0 THEN <<addrs[i]>> ELSE <<>>) \o DirectRefs(addrs, i + 1)

RECURSIVE InnerRefs(_, _, _)
InnerRefs(d, a, i) ==
  IF i >= NINDIRECT THEN <<>>
  ELSE (IF ReadUint(a, i) # 0
        THEN <<ReadUint(a, i)>> \o EntriesFrom(d[ReadUint(a, i)], 0)
        ELSE <<>>) \o InnerRefs(d, a, i + 1)

Refs(d, addrs) ==
  DirectRefs(addrs, 0)
    \o (IF addrs[NDIRECT] # 0
        THEN <<addrs[NDIRECT]>> \o EntriesFrom(d[addrs[NDIRECT]], 0) ELSE <<>>)
    \o (IF addrs[NDIRECT + 1] # 0
        THEN <<addrs[NDIRECT + 1]>> \o InnerRefs(d, d[addrs[NDIRECT + 1]], 0) ELSE <<>>)

Range(s) == {s[i] : i \in DOMAIN s}

(***************************************************************************)
(* Volumes.  A freshly made volume: the blocks of MetaBlocks are marked in  *)
(* use, every other block is free.                                         *)
(***************************************************************************)
RootDinode == [ZeroDinode EXCEPT !.type = T_DIR, !.nlink = 1]

\* the locals of a context that is not inside a call
NoLocals == [ip |-> 0, inum |-> 0, b |-> 0]

InitVolume(size, ninodes) ==
  /\ sb = [size |-> size, ninodes |-> ninodes]
  /\ proc = NoProc /\ kmem = 0
  /\ bitmap = [b \in 0 .. (size - 1) |-> b \in MetaBlocks]
  /\ disk = [b \in 0 .. (size - 1) |-> ZeroBlock]
  /\ panicked = NoPanic
  /\ last = [op |-> "none"]
  /\ pc = [c \in Ctx |-> "idle"]
  /\ loc = [c \in Ctx |-> NoLocals]
  /\ buflock = NoCtx
  /\ owned = [c \in Ctx |-> {}]

Store(s, m, l) ==
  /\ bitmap' = m.bm
  /\ disk' = m.disk
  /\ dinode' = m.din
  /\ icache' = [icache EXCEPT ![s] = m.ip]
  /\ panicked' = m.panic
  /\ last' = l
  /\ UNCHANGED <<sb, pvars, ilk, cvars>>

(***************************************************************************)
(* Sequential specifications: one context holds the locks of regular       *)
(* files, all loaded by ilock, and calls writei, itrunc (and in SpecBmap   *)
(* bmap itself) on them in any order.                                      *)
(*   SpecFS    two files on a small volume                                 *)
(*   SpecOne   one file on a volume that can hold a file of MAXFILE blocks *)
(*   SpecBmap  one file, bmap called with any block number                 *)
(***************************************************************************)
FileDinode == [ZeroDinode EXCEPT !.type = T_FILE, !.nlink = 1]

InitFiles(size, files) ==
  /\ InitVolume(size, NInodes)
  /\ dinode = [i \in 1 .. (NInodes - 1) |-> IF i \in files THEN FileDinode ELSE ZeroDinode]
  /\ icache = [s \in 0 .. (NINODE - 1) |->
                 IF s + 1 \in files
                 THEN [dev |-> ROOTDEV, inum |-> s + 1, ref |-> 1, valid |-> 1,
                       ino |-> FileDinode]
                 ELSE ZeroInode]
  /\ ilk = [s \in 0 .. (NINODE - 1) |-> IF s + 1 \in files THEN 1 ELSE NoCtx]
  /\ held = [c \in Ctx |-> [s \in 0 .. (NINODE - 1) |->
                               IF c = 1 /\ s + 1 \in files THEN 1 ELSE 0]]
  /\ loaded = [s \in 0 .. (NINODE - 1) |-> s + 1 \in files]

WriteOffs(size) == {0, size, size + 1}
WriteLens == {0, BSIZE, WriteiCeiling, UintRange - 1}
SrcVals == {<<1>>}

Held(s) == ilk[s] # NoCtx /\ icache[s].ref >= 1 /\ icache[s].valid = 1

\* a call of writei by the holder of the lock; in "last", over says that off + n
\* exceeds MAXFILE*BSIZE and pre that the other two checks of writei pass.
\* The call is recorded in "last" when rec is TRUE.
DoWritei(s, v, off, n, rec) ==
  /\ panicked = NoPanic
  /\ Held(s)
  /\ LET m == Writei(Machine(s), v, off, n)
     IN Store(s, m, IF rec
                    THEN [op |-> "writei", slot |-> s, r |-> m.r,
                          over |-> off + n > WriteiCeiling,
                          pre |-> off <= icache[s].ino.size /\ off + n < UintRange]
                    ELSE last)

\* a call of itrunc by the holder of the lock; freed is the number of blocks the
\* inode referred to
DoItrunc(s, rec) ==
  /\ panicked = NoPanic
  /\ Held(s)
  /\ LET m == Itrunc(Machine(s))
     IN Store(s, m, IF rec
                    THEN [op |-> "itrunc", slot |-> s,
                          freed |-> Len(Refs(disk, icache[s].ino.addrs))]
                    ELSE last)

\* a call of bmap by the holder of the lock
DoBmap(s, bn) ==
  /\ panicked = NoPanic
  /\ Held(s)
  /\ LET m == Bmap(Machine(s), bn)
     IN Store(s, m, [op |-> "bmap", slot |-> s, bn |-> bn, r |-> m.r])

InitFS == InitFiles(FsSize, {1, 2})

NextFS ==
  \/ \E s \in Slots, v \in SrcVals : \E off \in WriteOffs(icache[s].ino.size), n \in WriteLens :
       DoWritei(s, v, off, n, FALSE)
  \/ \E s \in Slots : DoItrunc(s, FALSE)

SpecFS == InitFS /\ [][NextFS]_vars

InitOne == InitFiles(OneFsSize, {1})

NextOne ==
  \/ \E s \in Slots, v \in SrcVals : \E off \in WriteOffs(icache[s].ino.size), n \in WriteLens :
       DoWritei(s, v, off, n, TRUE)
  \/ \E s \in Slots : DoItrunc(s, TRUE)

SpecOne == InitOne /\ [][NextOne]_vars

InitBmap == InitFiles(BmapFsSize, {1})

NextBmap ==
  \/ \E s \in Slots, bn \in 0 .. MAXFILE : DoBmap(s, bn)
  \/ \E s \in Slots : DoItrunc(s, TRUE)

SpecBmap == InitBmap /\ [][NextBmap]_vars

(***************************************************************************)
(* The inode cache under concurrency.  A context is between calls ("idle") *)
(* or inside iput or ialloc, whose steps interleave with the other         *)
(* contexts' steps.  iget and idup run wholly under icache.lock and are    *)
(* single steps; the code between acquiresleep and releasesleep of an      *)
(* inode is interleaved only where it touches state that others can see    *)
(* (ref under icache.lock, the on-disk inode, the lock itself).            *)
(***************************************************************************)
\* the references the contexts own (a call of ialloc counts as one from its start)
HeldTotal == LET RECURSIVE Sum(_, _)
                 Sum(c, s) == IF c \notin Ctx THEN 0
                              ELSE IF s \notin Slots THEN Sum(c + 1, 0)
                              ELSE held[c][s] + Sum(c, s + 1)
             IN Sum(1, 0) + Cardinality({c \in Ctx : pc[c] \in {"ialloc_scan", "ialloc_iget"}})

\* every step of a context inside the cache leaves the allocator's contexts alone
Step(c, newpc, newloc, l) ==
  /\ pc' = [pc EXCEPT ![c] = newpc]
  /\ loc' = [loc EXCEPT ![c] = newloc]
  /\ last' = l
  /\ UNCHANGED <<sb, pvars, buflock, owned>>

\* mutant of Iget: the cache is not searched, a free slot is always claimed
Iget_NoSearch(cache, dev, inum) ==
  LET empty == {s \in Slots : cache[s].ref = 0}
  IN IF empty = {} THEN [cache |-> cache, slot |-> 0, claimed |-> FALSE,
                         panic |-> "iget: no inodes"]
     ELSE LET s == SetMin(empty)
          IN [cache |-> [cache EXCEPT ![s].dev = dev, ![s].inum = inum,
                                      ![s].ref = 1, ![s].valid = 0],
              slot |-> s, claimed |-> TRUE, panic |-> NoPanic]

\* mutant of Iget: a recycled slot keeps its valid flag
Iget_KeepValid(cache, dev, inum) ==
  LET found == {s \in Slots : cache[s].ref > 0 /\ cache[s].dev = dev /\ cache[s].inum = inum}
      empty == {s \in Slots : cache[s].ref = 0}
  IN IF found # {}
     THEN [cache |-> [cache EXCEPT ![SetMin(found)].ref = @ + 1],
           slot |-> SetMin(found), claimed |-> FALSE, panic |-> NoPanic]
     ELSE IF empty = {} THEN [cache |-> cache, slot |-> 0, claimed |-> FALSE,
                              panic |-> "iget: no inodes"]
     ELSE LET s == SetMin(empty)
          IN [cache |-> [cache EXCEPT ![s].dev = dev, ![s].inum = inum, ![s].ref = 1],
              slot |-> s, claimed |-> TRUE, panic |-> NoPanic]

\* iget, under icache.lock: the first slot with ref > 0 that holds (dev, inum) gets
\* one more reference; otherwise the first slot with ref == 0 is claimed
Iget(cache, dev, inum) ==
  LET found == {s \in Slots : cache[s].ref > 0 /\ cache[s].dev = dev /\ cache[s].inum = inum}
      empty == {s \in Slots : cache[s].ref = 0}
  IN IF found # {}
     THEN [cache |-> [cache EXCEPT ![SetMin(found)].ref = @ + 1],
           slot |-> SetMin(found), claimed |-> FALSE, panic |-> NoPanic]
     ELSE IF empty = {} THEN [cache |-> cache, slot |-> 0, claimed |-> FALSE,
                              panic |-> "iget: no inodes"]
     ELSE LET s == SetMin(empty)
          IN [cache |-> [cache EXCEPT ![s].dev = dev, ![s].inum = inum,
                                      ![s].ref = 1, ![s].valid = 0],
              slot |-> s, claimed |-> TRUE, panic |-> NoPanic]

\* what a call of iget by context c leaves: the reference is c's, and a claimed
\* slot has not been loaded
IgetReturn(c, g, l) ==
  /\ icache' = g.cache
  /\ panicked' = g.panic
  /\ held' = IF g.panic = NoPanic THEN [held EXCEPT ![c][g.slot] = @ + 1] ELSE held
  /\ loaded' = IF g.claimed THEN [loaded EXCEPT ![g.slot] = FALSE] ELSE loaded
  /\ Step(c, "idle", NoLocals, l)

\* the callers of iget(dev, inum) in this layer pass the root or an inode number
\* read from a directory entry, which exists while the inode has links
HasLink(inum) == dinode[inum].type # 0 /\ dinode[inum].nlink > 0

\* a call of iget
CIget(c, inum) ==
  /\ panicked = NoPanic /\ pc[c] = "idle"
  /\ HeldTotal < MaxRefs
  /\ HasLink(inum)
  /\ LET g == Iget(icache, ROOTDEV, inum)
     IN IgetReturn(c, g, [op |-> "step"])
  /\ UNCHANGED <<bitmap, disk, dinode, ilk>>

\* mutant of CIdup: the reference count is not incremented
CIdup_NoIncrement(c, s) ==
  /\ panicked = NoPanic /\ pc[c] = "idle"
  /\ held[c][s] > 0 /\ HeldTotal < MaxRefs
  /\ held' = [held EXCEPT ![c][s] = @ + 1]
  /\ Step(c, "idle", NoLocals, [op |-> "step"])
  /\ UNCHANGED <<bitmap, disk, dinode, icache, ilk, panicked, loaded>>

\* a call of idup on a handle the context owns
CIdup(c, s) ==
  /\ panicked = NoPanic /\ pc[c] = "idle"
  /\ held[c][s] > 0 /\ HeldTotal < MaxRefs
  /\ icache' = [icache EXCEPT ![s].ref = @ + 1]
  /\ held' = [held EXCEPT ![c][s] = @ + 1]
  /\ Step(c, "idle", NoLocals, [op |-> "step"])
  /\ UNCHANGED <<bitmap, disk, dinode, ilk, panicked, loaded>>

\* a call of ilock on a handle the context owns; acquiresleep waits for the lock
CIlock(c, s) ==
  /\ panicked = NoPanic /\ pc[c] = "idle"
  /\ held[c][s] > 0
  /\ ilk[s] = NoCtx
  /\ ilk' = [ilk EXCEPT ![s] = c]
  /\ IF icache[s].valid = 0
     THEN /\ icache' = [icache EXCEPT ![s].ino = dinode[icache[s].inum], ![s].valid = 1]
          /\ loaded' = [loaded EXCEPT ![s] = TRUE]
          /\ panicked' = IF dinode[icache[s].inum].type = 0 THEN "ilock: no type" ELSE NoPanic
     ELSE UNCHANGED <<icache, loaded, panicked>>
  /\ Step(c, "idle", NoLocals, [op |-> "step"])
  /\ UNCHANGED <<bitmap, disk, dinode, held>>

\* a call of iunlock by the holder of the lock
CIunlock(c, s) ==
  /\ panicked = NoPanic /\ pc[c] = "idle"
  /\ ilk[s] = c /\ icache[s].ref >= 1
  /\ ilk' = [ilk EXCEPT ![s] = NoCtx]
  /\ Step(c, "idle", NoLocals, [op |-> "step"])
  /\ UNCHANGED <<bitmap, disk, dinode, icache, held, loaded, panicked>>

\* the caller's change of the link count of a locked inode (nlink = 1 when the
\* inode is linked into a directory, nlink-- when it is unlinked), with iupdate
CSetNlink(c, s, n) ==
  /\ panicked = NoPanic /\ pc[c] = "idle"
  /\ ilk[s] = c /\ icache[s].valid = 1
  /\ icache[s].inum # ROOTINO
  /\ icache[s].ino.nlink # n
  /\ LET m == Iupdate([Machine(s) EXCEPT !.ip.ino.nlink = n])
     IN /\ icache' = [icache EXCEPT ![s] = m.ip]
        /\ dinode' = m.din
  /\ Step(c, "idle", NoLocals, [op |-> "step"])
  /\ UNCHANGED <<bitmap, disk, ilk, held, loaded, panicked>>

\* iput, lines 335-340: acquiresleep(&ip->lock) by a caller that owns the
\* reference it drops and does not hold the lock; valid && nlink == 0; then
\* r = ip->ref under icache.lock.  Until the read of ref the call has touched only
\* the lock, so the acquisition is taken at the moment of the read.
IputCheck(c, s) ==
  /\ panicked = NoPanic /\ pc[c] = "idle"
  /\ held[c][s] > 0
  /\ ilk[s] = NoCtx
  /\ ilk' = [ilk EXCEPT ![s] = c]
  /\ LET ip == icache[s]
     IN Step(c, IF ip.valid = 1 /\ ip.ino.nlink = 0 /\ ip.ref = 1
                THEN "iput_free" ELSE "iput_release",
             [NoLocals EXCEPT !.ip = s], [op |-> "step"])
  /\ UNCHANGED <<bitmap, disk, dinode, icache, held, loaded, panicked>>

\* iput, lines 342-345: itrunc(ip); ip->type = 0; iupdate(ip); ip->valid = 0.
\* The sleep-lock is held and ref >= 1, so no other context reads or writes the
\* fields these lines touch.
IputFree(c) ==
  /\ panicked = NoPanic /\ pc[c] = "iput_free"
  /\ LET s == loc[c].ip
         t == Itrunc(Machine(s))
         m == IF Panicked(t) THEN t ELSE Iupdate([t EXCEPT !.ip.ino.type = 0])
     IN /\ bitmap' = m.bm /\ disk' = m.disk /\ dinode' = m.din
        /\ icache' = [icache EXCEPT ![s] = [m.ip EXCEPT !.valid = 0]]
        /\ panicked' = m.panic
  /\ Step(c, "iput_release", loc[c], [op |-> "step"])
  /\ UNCHANGED <<ilk, held, loaded>>

\* iput, line 348: releasesleep(&ip->lock)
IputRelease(c) ==
  /\ panicked = NoPanic /\ pc[c] = "iput_release"
  /\ ilk' = [ilk EXCEPT ![loc[c].ip] = NoCtx]
  /\ Step(c, "iput_dec", loc[c], [op |-> "step"])
  /\ UNCHANGED <<bitmap, disk, dinode, icache, held, loaded, panicked>>

\* iput, lines 350-352: ip->ref-- under icache.lock
IputDec(c) ==
  /\ panicked = NoPanic /\ pc[c] = "iput_dec"
  /\ LET s == loc[c].ip
     IN /\ icache' = [icache EXCEPT ![s].ref = @ - 1]
        /\ held' = [held EXCEPT ![c][s] = @ - 1]
        /\ Step(c, "idle", NoLocals, [op |-> "step"])
  /\ UNCHANGED <<bitmap, disk, dinode, ilk, loaded, panicked>>

\* mutant of IallocIter: a free inode is chosen but its type is not written
IallocIter_NoWrite(c, inum) ==
  /\ IF inum >= sb.ninodes
     THEN /\ panicked' = "ialloc: no inodes"
          /\ Step(c, "idle", NoLocals, [op |-> "step"])
     ELSE IF dinode[inum].type = 0
     THEN /\ Step(c, "ialloc_iget", [NoLocals EXCEPT !.inum = inum], [op |-> "step"])
          /\ UNCHANGED panicked
     ELSE /\ Step(c, "ialloc_scan", [NoLocals EXCEPT !.inum = inum + 1], [op |-> "step"])
          /\ UNCHANGED panicked
  /\ UNCHANGED <<bitmap, disk, dinode, icache, ilk, held, loaded>>

\* ialloc, lines 201-213: the loop test and one iteration, between bread and brelse
\* of the inode's block: a free inode is claimed by writing its type
IallocIter(c, inum) ==
  /\ IF inum >= sb.ninodes
     THEN /\ panicked' = "ialloc: no inodes"
          /\ Step(c, "idle", NoLocals, [op |-> "step"])
          /\ UNCHANGED dinode
     ELSE IF dinode[inum].type = 0
     THEN /\ dinode' = [dinode EXCEPT ![inum] = [ZeroDinode EXCEPT !.type = T_FILE]]
          /\ Step(c, "ialloc_iget", [NoLocals EXCEPT !.inum = inum], [op |-> "step"])
          /\ UNCHANGED panicked
     ELSE /\ Step(c, "ialloc_scan", [NoLocals EXCEPT !.inum = inum + 1], [op |-> "step"])
          /\ UNCHANGED <<dinode, panicked>>
  /\ UNCHANGED <<bitmap, disk, icache, ilk, held, loaded>>

\* ialloc is called: the scan starts at inum 1
IallocCall(c) ==
  /\ panicked = NoPanic /\ pc[c] = "idle"
  /\ HeldTotal < MaxRefs
  /\ IallocIter(c, 1)

\* ialloc: a later iteration of the scan
IallocScan(c) ==
  /\ panicked = NoPanic /\ pc[c] = "ialloc_scan"
  /\ IallocIter(c, loc[c].inum)

\* ialloc, line 210: return iget(dev, inum)
IallocIget(c) ==
  /\ panicked = NoPanic /\ pc[c] = "ialloc_iget"
  /\ LET g == Iget(icache, ROOTDEV, loc[c].inum)
     IN IgetReturn(c, g, [op |-> "step"])
  /\ UNCHANGED <<bitmap, disk, dinode, ilk>>

InitCache ==
  /\ InitVolume(CacheFsSize, NInodes)
  /\ dinode = [i \in 1 .. (NInodes - 1) |-> IF i = ROOTINO THEN RootDinode ELSE ZeroDinode]
  /\ icache = [s \in 0 .. (NINODE - 1) |-> ZeroInode]
  /\ ilk = [s \in 0 .. (NINODE - 1) |-> NoCtx]
  /\ held = [c \in Ctx |-> [s \in 0 .. (NINODE - 1) |-> 0]]
  /\ loaded = [s \in 0 .. (NINODE - 1) |-> FALSE]

NextCache ==
  \/ \E c \in Ctx, inum \in Inums : CIget(c, inum)
  \/ \E c \in Ctx, s \in Slots : CIdup(c, s)
  \/ \E c \in Ctx, s \in Slots : CIlock(c, s)
  \/ \E c \in Ctx, s \in Slots : CIunlock(c, s)
  \/ \E c \in Ctx, s \in Slots, n \in 0 .. 1 : CSetNlink(c, s, n)
  \/ \E c \in Ctx, s \in Slots : IputCheck(c, s)
  \/ \E c \in Ctx : IputFree(c)
  \/ \E c \in Ctx : IputRelease(c)
  \/ \E c \in Ctx : IputDec(c)
  \/ \E c \in Ctx : IallocCall(c)
  \/ \E c \in Ctx : IallocScan(c)
  \/ \E c \in Ctx : IallocIget(c)

SpecCache == InitCache /\ [][NextCache]_vars

(***************************************************************************)
(* The block allocator under concurrency.  The volume's bitmap fits in one *)
(* block (sb.size <= BPB), so every balloc and bfree works on the same     *)
(* buffer: bread returns it locked and brelse unlocks it.  A context owns  *)
(* the blocks balloc returned to it until it passes them to bfree.         *)
(***************************************************************************)
AStep(c, newpc, newloc) ==
  /\ pc' = [pc EXCEPT ![c] = newpc]
  /\ loc' = [loc EXCEPT ![c] = newloc]
  /\ last' = [op |-> "step"]
  /\ UNCHANGED <<sb, pvars, dinode, icache, ilk, held, loaded>>

\* balloc, line 64: bp = bread(dev, BBLOCK(b, sb)) waits for the buffer's lock
BallocBread(c) ==
  /\ panicked = NoPanic /\ pc[c] = "idle"
  /\ buflock = NoCtx
  /\ buflock' = c
  /\ AStep(c, "balloc_test", NoLocals)
  /\ UNCHANGED <<bitmap, disk, panicked, owned>>

\* mutant of BallocTest: the buffer is released between the test and the setting
BallocTest_Release(c) ==
  /\ panicked = NoPanic /\ pc[c] = "balloc_test"
  /\ IF BallocFree(Machine(0)) = {}
     THEN AStep(c, "balloc_fail", loc[c])
     ELSE AStep(c, "balloc_set", [loc[c] EXCEPT !.b = SetMin(BallocFree(Machine(0)))])
  /\ buflock' = NoCtx
  /\ UNCHANGED <<bitmap, disk, panicked, owned>>

\* balloc, lines 65-67: the scan stops at the first clear bit below sb.size
BallocTest(c) ==
  /\ panicked = NoPanic /\ pc[c] = "balloc_test"
  /\ IF BallocFree(Machine(0)) = {}
     THEN AStep(c, "balloc_fail", loc[c])
     ELSE AStep(c, "balloc_set", [loc[c] EXCEPT !.b = SetMin(BallocFree(Machine(0)))])
  /\ UNCHANGED <<bitmap, disk, panicked, buflock, owned>>

\* balloc, lines 68-69: bp->data[bi/8] |= m; log_write(bp)
BallocSet(c) ==
  /\ panicked = NoPanic /\ pc[c] = "balloc_set"
  /\ bitmap' = [bitmap EXCEPT ![loc[c].b] = TRUE]
  /\ AStep(c, "balloc_brelse", loc[c])
  /\ UNCHANGED <<disk, panicked, buflock, owned>>

\* balloc, line 70: brelse(bp)
BallocBrelse(c) ==
  /\ panicked = NoPanic /\ pc[c] = "balloc_brelse"
  /\ buflock' = NoCtx
  /\ AStep(c, "balloc_bzero", loc[c])
  /\ UNCHANGED <<bitmap, disk, panicked, owned>>

\* balloc, lines 71-72: bzero(dev, b + bi); return b + bi
BallocBzero(c) ==
  /\ panicked = NoPanic /\ pc[c] = "balloc_bzero"
  /\ disk' = [disk EXCEPT ![loc[c].b] = ZeroBlock]
  /\ owned' = [owned EXCEPT ![c] = @ \cup {loc[c].b}]
  /\ AStep(c, "idle", NoLocals)
  /\ UNCHANGED <<bitmap, panicked, buflock>>

\* balloc, lines 75-77: brelse(bp) after a scan that found no clear bit, then panic
BallocFail(c) ==
  /\ panicked = NoPanic /\ pc[c] = "balloc_fail"
  /\ buflock' = NoCtx
  /\ panicked' = "balloc: out of blocks"
  /\ AStep(c, "idle", NoLocals)
  /\ UNCHANGED <<bitmap, disk, owned>>

\* the owner of a block writes it
BlockWrite(c, b) ==
  /\ panicked = NoPanic /\ pc[c] = "idle"
  /\ b \in owned[c]
  /\ disk[b] = ZeroBlock
  /\ disk' = [disk EXCEPT ![b] = [i \in 0 .. (BSIZE - 1) |-> c]]
  /\ AStep(c, "idle", NoLocals)
  /\ UNCHANGED <<bitmap, panicked, buflock, owned>>

\* bfree, lines 86-87: called by the owner of block b, who gives the block up;
\* bread waits for the buffer's lock
BfreeBread(c, b) ==
  /\ panicked = NoPanic /\ pc[c] = "idle"
  /\ b \in owned[c]
  /\ buflock = NoCtx
  /\ buflock' = c
  /\ owned' = [owned EXCEPT ![c] = @ \ {b}]
  /\ AStep(c, "bfree_clear", [NoLocals EXCEPT !.b = b])
  /\ UNCHANGED <<bitmap, disk, panicked>>

\* bfree, lines 88-93: the bit must be set, and is cleared
BfreeClear(c) ==
  /\ panicked = NoPanic /\ pc[c] = "bfree_clear"
  /\ LET m == Bfree(Machine(0), loc[c].b)
     IN bitmap' = m.bm /\ panicked' = m.panic
  /\ AStep(c, "bfree_brelse", loc[c])
  /\ UNCHANGED <<disk, buflock, owned>>

\* bfree, line 94: brelse(bp)
BfreeBrelse(c) ==
  /\ panicked = NoPanic /\ pc[c] = "bfree_brelse"
  /\ buflock' = NoCtx
  /\ AStep(c, "idle", NoLocals)
  /\ UNCHANGED <<bitmap, disk, panicked, owned>>

InitAlloc ==
  /\ InitVolume(AllocFsSize, NInodes)
  /\ dinode = [i \in 1 .. (NInodes - 1) |-> IF i = ROOTINO THEN RootDinode ELSE ZeroDinode]
  /\ icache = [s \in 0 .. (NINODE - 1) |-> ZeroInode]
  /\ ilk = [s \in 0 .. (NINODE - 1) |-> NoCtx]
  /\ held = [c \in Ctx |-> [s \in 0 .. (NINODE - 1) |-> 0]]
  /\ loaded = [s \in 0 .. (NINODE - 1) |-> FALSE]

NextAlloc ==
  \/ \E c \in Ctx : BallocBread(c)
  \/ \E c \in Ctx : BallocTest(c)
  \/ \E c \in Ctx : BallocSet(c)
  \/ \E c \in Ctx : BallocBrelse(c)
  \/ \E c \in Ctx : BallocBzero(c)
  \/ \E c \in Ctx : BallocFail(c)
  \/ \E c \in Ctx, b \in Blocks : BlockWrite(c, b)
  \/ \E c \in Ctx, b \in Blocks : BfreeBread(c, b)
  \/ \E c \in Ctx : BfreeClear(c)
  \/ \E c \in Ctx : BfreeBrelse(c)

SpecAlloc == InitAlloc /\ [][NextAlloc]_vars

(***************************************************************************)
(* Reads and writes.  One context holds the locks of a regular file        *)
(* (slot 0) and of a device inode (slot 1) whose major number is any short *)
(* of Majors, and calls readi and writei on them with any offset and       *)
(* length.  last.data is the content of the regular file as the successful *)
(* writei calls so far define it, byte by byte.                            *)
(***************************************************************************)
Majors == {-1, 0, CONSOLE, NDEV}

DevDinode(major) == [ZeroDinode EXCEPT !.type = T_DEV, !.major = major, !.nlink = 1]

IoWriteLens == {0, 3, BSIZE, WriteiCeiling, UintRange - 1}
IoReadLens == {0, 1, BSIZE, UintRange - 1}

\* the file content after n bytes of the buffer v are stored at off
DataAfter(data, v, off, n) ==
  [i \in 1 .. (IF off + n > Len(data) THEN off + n ELSE Len(data)) |->
     IF i > off /\ i <= off + n THEN SrcByte(v, i - 1 - off) ELSE data[i]]

\* writei passes its checks on a regular file
WriteiAccepts(ip, off, n) ==
  /\ ip.ino.type # T_DEV
  /\ off <= ip.ino.size /\ off + n < UintRange
  /\ off + n <= WriteiCeiling

\* a call of writei by the holder of the lock
IoWritei(s, v, off, n) ==
  /\ panicked = NoPanic
  /\ Held(s)
  /\ WriteiAccepts(icache[s], off, n) => off + n <= IoMaxSize
  /\ \E m \in {Writei(Machine(s), v, off, n)} :
        Store(s, m, [op |-> "writei", slot |-> s, off |-> off, n |-> n, r |-> m.r,
                     dst |-> <<>>,
                     data |-> IF WriteiAccepts(icache[s], off, n) /\ ~Panicked(m)
                              THEN DataAfter(last.data, v, off, n) ELSE last.data])

\* a call of readi by the holder of the lock
IoReadi(s, off, n, devr) ==
  /\ panicked = NoPanic
  /\ Held(s)
  /\ \E m \in {Readi(Machine(s), off, n, devr)} :
        Store(s, m, [op |-> "readi", slot |-> s, off |-> off, n |-> n, r |-> m.r,
                     dst |-> m.dst, data |-> last.data])

InitIO ==
  /\ sb = [size |-> IoFsSize, ninodes |-> NInodes]
  /\ proc = NoProc /\ kmem = 0
  /\ bitmap = [b \in 0 .. (IoFsSize - 1) |-> b \in MetaBlocks]
  /\ disk = [b \in 0 .. (IoFsSize - 1) |-> ZeroBlock]
  /\ panicked = NoPanic
  /\ last = [op |-> "none", data |-> <<>>]
  /\ pc = [c \in Ctx |-> "idle"]
  /\ loc = [c \in Ctx |-> NoLocals]
  /\ buflock = NoCtx
  /\ owned = [c \in Ctx |-> {}]
  /\ \E major \in Majors :
       /\ dinode = [i \in 1 .. (NInodes - 1) |->
                      IF i = 1 THEN FileDinode
                      ELSE IF i = 2 THEN DevDinode(major) ELSE ZeroDinode]
       /\ icache = [s \in 0 .. (NINODE - 1) |->
                      IF s <= 1
                      THEN [dev |-> ROOTDEV, inum |-> s + 1, ref |-> 1, valid |-> 1,
                            ino |-> dinode[s + 1]]
                      ELSE ZeroInode]
  /\ ilk = [s \in 0 .. (NINODE - 1) |-> IF s <= 1 THEN 1 ELSE NoCtx]
  /\ held = [c \in Ctx |-> [s \in 0 .. (NINODE - 1) |-> IF c = 1 /\ s <= 1 THEN 1 ELSE 0]]
  /\ loaded = [s \in 0 .. (NINODE - 1) |-> s <= 1]

NextIO ==
  \/ \E s \in Slots, v \in {<<1>>, <<2>>} : \E off \in WriteOffs(icache[s].ino.size), n \in IoWriteLens :
       IoWritei(s, v, off, n)
  \/ \E s \in Slots : \E off \in 0 .. (icache[s].ino.size + 1), n \in IoReadLens :
       \E devr \in {0, n} : IoReadi(s, off, n, devr)

SpecIO == InitIO /\ [][NextIO]_vars

(***************************************************************************)
(* Directories.  A C string is the sequence of its chars before the NUL; a *)
(* char array (de.name, namex's name[DIRSIZ]) is the sequence of all its   *)
(* chars.  A directory entry is stored as SizeofDirent bytes: the ushort   *)
(* inum, low byte first, then name[DIRSIZ].                                *)
(***************************************************************************)
\* the char at index i (from 0) of a string or array; past a string's chars is its NUL
CharAt(p, i) == IF i < Len(p) THEN p[i + 1] ELSE 0

\* strncmp(p, q, n): while(n > 0 && *p && *p == *q) n--, p++, q++;
\* 0 if n == 0, else *p - *q
Strncmp(p, q, n) ==
  LET RECURSIVE Cmp(_)
      Cmp(i) == IF i >= n THEN 0
                ELSE IF CharAt(p, i) # 0 /\ CharAt(p, i) = CharAt(q, i) THEN Cmp(i + 1)
                ELSE CharAt(p, i) - CharAt(q, i)
  IN Cmp(0)

\* strncpy(t, s, n): the chars of s up to its NUL, then NULs, n chars in all
Strncpy(p, n) ==
  [i \in 1 .. n |-> IF \A j \in 0 .. (i - 2) : CharAt(p, j) # 0 THEN CharAt(p, i - 1) ELSE 0]

\* mutant of Namecmp: one char more than DIRSIZ is compared
Namecmp_Whole(p, q) == Strncmp(p, q, DIRSIZ + 1)

\* namecmp
Namecmp(p, q) == Strncmp(p, q, DIRSIZ)

\* the bytes of a struct dirent, and the fields of the bytes read into one
DeBytes(inum, name) == <<inum % ByteRange, inum \div ByteRange>> \o name
DeInum(b) == b[1] + ByteRange * b[2]
DeName(b) == SubSeq(b, 3, 2 + DIRSIZ)

\* skipelem: while(*path == '/') path++;
RECURSIVE SkipSlashes(_)
SkipSlashes(p) == IF p # <<>> /\ Head(p) = Slash THEN SkipSlashes(Tail(p)) ELSE p

\* skipelem: while(*path != '/' && *path != 0) path++; len = path - s;
RECURSIVE ElemLen(_)
ElemLen(p) == IF p = <<>> \/ Head(p) = Slash THEN 0 ELSE 1 + ElemLen(Tail(p))

\* skipelem: if(len >= DIRSIZ) memmove(name, s, DIRSIZ);
\* else { memmove(name, s, len); name[len] = 0; }
\* name is the caller's char name[DIRSIZ] with whatever it held before
SkipelemCopy(s, len, name) ==
  IF len >= DIRSIZ THEN SubSeq(s, 1, DIRSIZ)
  ELSE [i \in 1 .. DIRSIZ |-> IF i <= len THEN s[i] ELSE IF i = len + 1 THEN 0 ELSE name[i]]

\* skipelem after the leading slashes have been skipped: ok is FALSE when 0 is
\* returned, else path is what is returned and name what the buffer holds
SkipelemFrom(s, name) ==
  IF s = <<>> THEN [ok |-> FALSE, path |-> <<>>, name |-> name]
  ELSE [ok |-> TRUE, path |-> SkipSlashes(SubSeq(s, ElemLen(s) + 1, Len(s))),
        name |-> SkipelemCopy(s, ElemLen(s), name)]

\* skipelem(path, name)
Skipelem(path, name) == SkipelemFrom(SkipSlashes(path), name)

\* what dirlookup's loop leaves: hit says that an entry matched, inum is its
\* inode number and off its offset
DirMiss(m, panic) == [m |-> m, panic |-> panic, inum |-> 0, off |-> 0, hit |-> FALSE]
DirHit(m, inum, off) == [m |-> m, panic |-> NoPanic, inum |-> inum, off |-> off, hit |-> TRUE]

\* dirlookup's loop: for(off = 0; off < dp->size; off += sizeof(de)), and its
\* body after readi has filled de (rd.dst)
RECURSIVE DirlookupLoop(_, _, _)
DirlookupEntry(rd, name, off) ==
  IF Panicked(rd) THEN DirMiss(rd, rd.panic)
  ELSE IF rd.r # SizeofDirent THEN DirMiss(rd, "dirlookup read")
  ELSE IF DeInum(rd.dst) = 0 THEN DirlookupLoop(rd, name, off + SizeofDirent)
  ELSE IF Namecmp(name, DeName(rd.dst)) = 0 THEN DirHit(rd, DeInum(rd.dst), off)
  ELSE DirlookupLoop(rd, name, off + SizeofDirent)

DirlookupLoop(m, name, off) ==
  IF off >= m.ip.ino.size THEN DirMiss(m, NoPanic)
  ELSE DirlookupEntry(Readi(m, off, SizeofDirent, 0), name, off)

\* dirlookup's return iget(dp->dev, inum) for the entry the loop found: h is the
\* slot of the inode returned (NoSlot for 0), poff what *poff is set to
DirlookupIget(f, g) ==
  [m |-> f.m, cache |-> g.cache, h |-> IF g.panic = NoPanic THEN g.slot ELSE NoSlot,
   claimed |-> g.claimed, poff |-> f.off, panic |-> g.panic]

DirlookupReturn(f, cache, dev) ==
  IF f.panic # NoPanic \/ ~f.hit
  THEN [m |-> f.m, cache |-> cache, h |-> NoSlot, claimed |-> FALSE, poff |-> 0,
        panic |-> f.panic]
  ELSE DirlookupIget(f, Iget(cache, dev, f.inum))

\* dirlookup(dp, name, poff) on the directory m.ip
Dirlookup(m, cache, name) ==
  IF m.ip.ino.type # T_DIR
  THEN [m |-> m, cache |-> cache, h |-> NoSlot, claimed |-> FALSE, poff |-> 0,
        panic |-> "dirlookup not DIR"]
  ELSE DirlookupReturn(DirlookupLoop(m, name, 0), cache, m.ip.dev)

\* iput, lines 342-345, on slot t: itrunc(ip); ip->type = 0; iupdate(ip);
\* ip->valid = 0; then ref--.  m.ip is the directory the caller works on
IputFreed(m, cache, t, t1) ==
  [m |-> [t1 EXCEPT !.ip = m.ip],
   cache |-> [cache EXCEPT ![t] = [t1.ip EXCEPT !.valid = 0, !.ref = @ - 1]],
   blocked |-> FALSE, panic |-> t1.panic]

IputType(t1) == IF Panicked(t1) THEN t1 ELSE Iupdate([t1 EXCEPT !.ip.ino.type = 0])

\* a sleep-lock is held by at most one context at a time, and acquiresleep waits
\* while it is held, by whomever
SleepLocked(lk, t) == lk[t] # NoCtx

\* iput(ip) on slot t, run to its end by a context that holds the locks lk: when
\* acquiresleep(&ip->lock) has to wait the call does not return (blocked);
\* otherwise lines 337-352
Iput(m, cache, lk, t) ==
  IF SleepLocked(lk, t) THEN [m |-> m, cache |-> cache, blocked |-> TRUE, panic |-> NoPanic]
  ELSE IF cache[t].valid = 1 /\ cache[t].ino.nlink = 0 /\ cache[t].ref = 1
  THEN IputFreed(m, cache, t, IputType(Itrunc([m EXCEPT !.ip = cache[t]])))
  ELSE [m |-> m, cache |-> [cache EXCEPT ![t].ref = @ - 1], blocked |-> FALSE,
        panic |-> NoPanic]

\* dirlink, lines 717-722: the offset of the first entry with inum == 0, or
\* dp->size when there is none
RECURSIVE DirlinkScan(_, _)
DirlinkEntry(rd, off) ==
  IF Panicked(rd) THEN [m |-> rd, off |-> off, panic |-> rd.panic]
  ELSE IF rd.r # SizeofDirent THEN [m |-> rd, off |-> off, panic |-> "dirlink read"]
  ELSE IF DeInum(rd.dst) = 0 THEN [m |-> rd, off |-> off, panic |-> NoPanic]
  ELSE DirlinkScan(rd, off + SizeofDirent)

DirlinkScan(m, off) ==
  IF off >= m.ip.ino.size THEN [m |-> m, off |-> off, panic |-> NoPanic]
  ELSE DirlinkEntry(Readi(m, off, SizeofDirent, 0), off)

\* what dirlink leaves: r is the value returned, h the slot of the inode that
\* dirlookup found (NoSlot when none), off the offset written to, blocked says
\* that the call waits in iput
DirlinkResult(m, cache, r, h, off, blocked, panic) ==
  [m |-> m, cache |-> cache, r |-> r, h |-> h, off |-> off, blocked |-> blocked,
   panic |-> panic]

\* dirlink, lines 711-714: iput(ip); return -1
DirlinkExists(d, p) == DirlinkResult(p.m, p.cache, -1, d.h, 0, p.blocked, p.panic)

\* dirlink, lines 726-729: if(writei(dp, (char*)&de, off, sizeof(de)) != sizeof(de))
\* panic("dirlink"); return 0
DirlinkWritten(w, cache, off) ==
  DirlinkResult(w, cache, 0, NoSlot, off, FALSE,
                IF Panicked(w) THEN w.panic
                ELSE IF w.r # SizeofDirent THEN "dirlink" ELSE NoPanic)

\* dirlink, lines 724-726: strncpy(de.name, name, DIRSIZ); de.inum = inum; writei.
\* de.inum is a ushort: the assignment keeps inum modulo UshortRange
DirlinkWrite(sc, cache, name, inum) ==
  IF sc.panic # NoPanic THEN DirlinkResult(sc.m, cache, 0, NoSlot, 0, FALSE, sc.panic)
  ELSE DirlinkWritten(Writei(sc.m, DeBytes(inum % UshortRange, Strncpy(name, DIRSIZ)),
                             sc.off, SizeofDirent),
                      cache, sc.off)

\* dirlink after dirlookup has returned d
DirlinkLooked(d, lk, name, inum) ==
  IF d.panic # NoPanic THEN DirlinkResult(d.m, d.cache, 0, NoSlot, 0, FALSE, d.panic)
  ELSE IF d.h # NoSlot THEN DirlinkExists(d, Iput(d.m, d.cache, lk, d.h))
  ELSE DirlinkWrite(DirlinkScan(d.m, 0), d.cache, name, inum)

\* dirlink(dp, name, inum) on the directory m.ip
Dirlink(m, cache, lk, name, inum) == DirlinkLooked(Dirlookup(m, cache, name), lk, name, inum)

(***************************************************************************)
(* SpecDir: context 1 holds the lock of the directory dp (the root, slot   *)
(* 0) and calls dirlookup and dirlink on it with any name and inode        *)
(* number, erases entries as sys_unlink does, and drops with iput the      *)
(* handles dirlookup returned.  A call of iput that waits for a lock its   *)
(* caller holds never returns: the context stays at "iput_acquire".        *)
(***************************************************************************)
DirDinode == [ZeroDinode EXCEPT !.type = T_DIR, !.nlink = 1]

\* names as callers pass them: "a", "ab", "aba", "abb"
DirNames == {<<1>>, <<1, 2>>, <<1, 2, 1>>, <<1, 2, 2>>}

\* paths as namex passes them to skipelem: "a", "ab", "/aba//b", "abb/", "//"
DirPaths == {<<1>>, <<1, 2>>, <<Slash, 1, 2, 1, Slash, Slash, 2>>, <<1, 2, 2, Slash>>,
             <<Slash, Slash>>}

\* what the name buffer holds before skipelem: NULs, or an earlier name ("bb")
DirBufs == {<<0, 0>>, <<2, 2>>}

\* inode numbers as callers pass them (uint)
DirInums == {0, ROOTINO, 2, UshortRange + 2}

DirSlot == 0

DirStore(m, cache, l) ==
  /\ bitmap' = m.bm
  /\ disk' = m.disk
  /\ dinode' = m.din
  /\ icache' = [cache EXCEPT ![DirSlot].ino = m.ip.ino]
  /\ last' = l
  /\ UNCHANGED <<sb, pvars, ilk, loaded, buflock, owned>>

\* the entries of the directory in slot 0, as <<inum, name>> pairs in file order
DirEntries(d, ip) ==
  LET w == Readi([bm |-> bitmap, disk |-> d, din |-> dinode, ip |-> ip,
                  panic |-> NoPanic, r |-> 0], 0, ip.ino.size, 0).dst
  IN [k \in 1 .. (ip.ino.size \div SizeofDirent) |->
        LET b == SubSeq(w, (k - 1) * SizeofDirent + 1, k * SizeofDirent)
        IN <<DeInum(b), DeName(b)>>]

\* the references to inode inum in the cache
RefOf(cache, inum) ==
  LET f == {s \in Slots : cache[s].ref > 0 /\ cache[s].dev = ROOTDEV /\ cache[s].inum = inum}
  IN IF f = {} THEN 0 ELSE cache[SetMin(f)].ref

\* namex, lines 786 and 797: skipelem(path, name) with name[] holding buf, and when
\* it returns a path, dirlookup(dp, name, 0)
DirDoLookup(path, buf) ==
  /\ panicked = NoPanic /\ pc[1] = "idle"
  /\ HeldTotal < MaxRefs
  /\ \E sk \in {Skipelem(path, buf)} :
        IF sk.ok
        THEN \E d \in {Dirlookup(Machine(DirSlot), icache, sk.name)} :
               /\ DirStore(d.m, d.cache,
                            [op |-> "dirlookup", name |-> sk.name, inum |-> 0, r |-> 0,
                             h |-> d.h, off |-> d.poff, returned |-> d.panic = NoPanic,
                             path |-> path, buf |-> buf, ok |-> TRUE, rest |-> sk.path])
               /\ panicked' = d.panic
               /\ held' = IF d.h # NoSlot THEN [held EXCEPT ![1][d.h] = @ + 1] ELSE held
        ELSE /\ last' = [op |-> "dirlookup", name |-> sk.name, inum |-> 0, r |-> 0,
                         h |-> NoSlot, off |-> 0, returned |-> TRUE,
                         path |-> path, buf |-> buf, ok |-> FALSE, rest |-> <<>>]
             /\ UNCHANGED <<sb, pvars, bitmap, disk, dinode, icache, ilk, panicked, held,
                            loaded, buflock, owned>>
  /\ UNCHANGED <<pc, loc>>

\* a call of dirlink(dp, name, inum)
DirDoLink(name, inum) ==
  /\ panicked = NoPanic /\ pc[1] = "idle"
  /\ \E k \in {Dirlink(Machine(DirSlot), icache, ilk, name, inum)} :
        /\ k.m.ip.ino.size <= DirMaxEntries * SizeofDirent
        /\ DirStore(k.m, k.cache,
                     [op |-> "dirlink", name |-> name, inum |-> inum, r |-> k.r, h |-> k.h,
                      off |-> k.off, returned |-> k.panic = NoPanic /\ ~k.blocked])
        /\ panicked' = k.panic
        /\ IF k.blocked
           THEN /\ pc' = [pc EXCEPT ![1] = "iput_acquire"]
                /\ loc' = [loc EXCEPT ![1] = [NoLocals EXCEPT !.ip = k.h]]
                /\ held' = [held EXCEPT ![1][k.h] = @ + 1]
           ELSE UNCHANGED <<pc, loc, held>>

\* sys_unlink's memset(&de, 0, sizeof(de)); writei(dp, &de, off, sizeof(de)) on
\* entry number k
DirDoErase(k) ==
  /\ panicked = NoPanic /\ pc[1] = "idle"
  /\ k * SizeofDirent < icache[DirSlot].ino.size
  /\ LET w == Writei(Machine(DirSlot), [i \in 1 .. SizeofDirent |-> 0],
                     k * SizeofDirent, SizeofDirent)
     IN /\ DirStore(w, icache, [op |-> "erase", name |-> <<>>, inum |-> 0, r |-> w.r,
                                h |-> NoSlot, off |-> k * SizeofDirent, returned |-> TRUE])
        /\ panicked' = w.panic
  /\ UNCHANGED <<pc, loc, held>>

\* a call of iput on a handle that dirlookup returned, not locked by the caller
DirDoIput(s) ==
  /\ panicked = NoPanic /\ pc[1] = "idle"
  /\ held[1][s] > (IF s = DirSlot THEN 1 ELSE 0)
  /\ ilk[s] # 1
  /\ \E p \in {Iput(Machine(DirSlot), icache, ilk, s)} :
        /\ DirStore(p.m, p.cache, [op |-> "iput", name |-> <<>>, inum |-> 0, r |-> 0,
                                   h |-> s, off |-> 0, returned |-> TRUE])
        /\ panicked' = p.panic
  /\ held' = [held EXCEPT ![1][s] = @ - 1]
  /\ UNCHANGED <<pc, loc>>

InitDir ==
  /\ InitVolume(DirFsSize, NInodes)
  /\ dinode = [i \in 1 .. (NInodes - 1) |-> IF i = ROOTINO THEN DirDinode ELSE FileDinode]
  /\ icache = [s \in 0 .. (NINODE - 1) |->
                 IF s = DirSlot
                 THEN [dev |-> ROOTDEV, inum |-> ROOTINO, ref |-> 1, valid |-> 1,
                       ino |-> DirDinode]
                 ELSE ZeroInode]
  /\ ilk = [s \in 0 .. (NINODE - 1) |-> IF s = DirSlot THEN 1 ELSE NoCtx]
  /\ held = [c \in Ctx |-> [s \in 0 .. (NINODE - 1) |-> IF c = 1 /\ s = DirSlot THEN 1 ELSE 0]]
  /\ loaded = [s \in 0 .. (NINODE - 1) |-> s = DirSlot]

NextDir ==
  \/ \E path \in DirPaths, buf \in DirBufs : DirDoLookup(path, buf)
  \/ \E name \in DirNames, inum \in DirInums : DirDoLink(name, inum)
  \/ \E k \in 0 .. (DirMaxEntries - 1) : DirDoErase(k)
  \/ \E s \in Slots : DirDoIput(s)

SpecDir == InitDir /\ [][NextDir]_vars

(***************************************************************************)
(* Path resolution.  The volume holds the tree /a/bb/c: the root (inode    *)
(* 1), the directories a (2) and bb (3) and the regular file c (4), every  *)
(* directory with the one entry of its child.  The current directory of    *)
(* every context is a, held in cache slot CwdSlot from the start.  A       *)
(* context inside namex is at one of                                       *)
(*   "namex_ilock"        before ilock(ip)                                 *)
(*   "namex_body"         after ilock(ip), holding the lock                *)
(*   "namex_iput"         before acquiresleep in iput(ip)                  *)
(*   "namex_iput_unlock"  before releasesleep in iput(ip)                  *)
(*   "namex_iput_dec"     before ref-- in iput(ip)                         *)
(* and at "namex_have" after namex returned a handle, which the caller     *)
(* then drops with iput.  loc[c] holds the locals of the call: path, name, *)
(* ip, next, what follows the iput in progress (after), the path of the    *)
(* call (opath) and the reference counts at the call (refs).  The loop     *)
(* test, which works on the locals only, is taken together with the step   *)
(* before it.                                                              *)
(***************************************************************************)
CwdSlot == 0
CwdInum == 2

\* the (inum, name) entry of each directory of the tree, by inode number
PathTree == <<  <<2, <<1, 0>> >>,  <<3, <<2, 2>> >>,  <<4, <<CharC, 0>> >>  >>

\* the reference count of every inode
RefsNow(cache) == [i \in Inums |-> RefOf(cache, i)]

\* namex, with the locals lc, returns r (a slot, or NoSlot for 0) to context c
NamexReturn(c, lc, r) ==
  Step(c, IF r = NoSlot THEN "idle" ELSE "namex_have",
       IF r = NoSlot THEN NoLocals ELSE [NoLocals EXCEPT !.ip = r],
       [op |-> "namex", ctx |-> c, path |-> lc.opath, parent |-> lc.parent,
        r |-> r, name |-> lc.name, refs |-> lc.refs, buf |-> lc.buf])

\* mutant of NamexLoop: after the loop ip is returned to nameiparent too
NamexLoop_NoParentCheck(c, lc) ==
  \E sk \in {Skipelem(lc.path, lc.name)} :
    IF sk.ok
    THEN Step(c, "namex_ilock", [lc EXCEPT !.path = sk.path, !.name = sk.name],
              [op |-> "step"])
    ELSE NamexReturn(c, lc, lc.ip)

\* namex, line 786 and lines 804-808, with the locals lc: the loop test
\* path = skipelem(path, name), and what follows the loop
NamexLoop(c, lc) ==
  \E sk \in {Skipelem(lc.path, lc.name)} :
    IF sk.ok
    THEN Step(c, "namex_ilock", [lc EXCEPT !.path = sk.path, !.name = sk.name],
              [op |-> "step"])
    ELSE IF lc.parent
    THEN Step(c, "namex_iput", [lc EXCEPT !.after = "ret0"], [op |-> "step"])
    ELSE NamexReturn(c, lc, lc.ip)

\* namex, lines 781-784: ip = iget(ROOTDEV, ROOTINO) or ip = idup(myproc()->cwd);
\* buf is what the caller's name[] holds, refs the reference counts to remember
NamexCall(c, path, parent, buf, refs) ==
  /\ panicked = NoPanic /\ pc[c] = "idle"
  /\ \E g \in {IF path # <<>> /\ Head(path) = Slash
                THEN Iget(icache, ROOTDEV, ROOTINO)
                ELSE [cache |-> [icache EXCEPT ![CwdSlot].ref = @ + 1], slot |-> CwdSlot,
                      claimed |-> FALSE, panic |-> NoPanic]} :
        /\ icache' = g.cache
        /\ panicked' = g.panic
        /\ held' = IF g.panic = NoPanic THEN [held EXCEPT ![c][g.slot] = @ + 1] ELSE held
        /\ loaded' = IF g.claimed THEN [loaded EXCEPT ![g.slot] = FALSE] ELSE loaded
        /\ NamexLoop(c, [ip |-> g.slot, inum |-> 0, b |-> 0, path |-> path,
                         opath |-> path, name |-> buf, buf |-> buf, parent |-> parent,
                         next |-> NoSlot, after |-> "loop", refs |-> refs])
  /\ UNCHANGED <<bitmap, disk, dinode, ilk>>

\* namex, line 787: ilock(ip); acquiresleep waits for the lock
NamexIlock(c) ==
  /\ panicked = NoPanic /\ pc[c] = "namex_ilock"
  /\ ~SleepLocked(ilk, loc[c].ip)
  /\ ilk' = [ilk EXCEPT ![loc[c].ip] = c]
  /\ \E s \in {loc[c].ip} :
        IF icache[s].ref < 1
        THEN /\ panicked' = "ilock"
             /\ UNCHANGED <<icache, loaded>>
        ELSE IF icache[s].valid = 0
        THEN /\ icache' = [icache EXCEPT ![s].ino = dinode[icache[s].inum], ![s].valid = 1]
             /\ loaded' = [loaded EXCEPT ![s] = TRUE]
             /\ panicked' = IF dinode[icache[s].inum].type = 0 THEN "ilock: no type"
                             ELSE NoPanic
        ELSE UNCHANGED <<icache, loaded, panicked>>
  /\ Step(c, "namex_body", loc[c], [op |-> "step"])
  /\ UNCHANGED <<bitmap, disk, dinode, held>>

\* mutant of NamexLooked: when dirlookup fails, namex returns 0 without
\* iunlockput(ip)
NamexLooked_NoPut(c, d) ==
  /\ bitmap' = d.m.bm /\ disk' = d.m.disk /\ dinode' = d.m.din
  /\ icache' = d.cache
  /\ panicked' = d.panic
  /\ held' = IF d.h # NoSlot THEN [held EXCEPT ![c][d.h] = @ + 1] ELSE held
  /\ loaded' = IF d.claimed THEN [loaded EXCEPT ![d.h] = FALSE] ELSE loaded
  /\ IF d.h = NoSlot
     THEN NamexReturn(c, loc[c], NoSlot)
     ELSE Step(c, "namex_iput", [loc[c] EXCEPT !.next = d.h, !.after = "loop"],
               [op |-> "step"])

\* namex, lines 797-802 after dirlookup returned d: iunlock(ip), then iput(ip)
\* is to run, after which namex returns 0 or goes on with ip = next
NamexLooked(c, d) ==
  /\ bitmap' = d.m.bm /\ disk' = d.m.disk /\ dinode' = d.m.din
  /\ icache' = d.cache
  /\ panicked' = d.panic
  /\ held' = IF d.h # NoSlot THEN [held EXCEPT ![c][d.h] = @ + 1] ELSE held
  /\ loaded' = IF d.claimed THEN [loaded EXCEPT ![d.h] = FALSE] ELSE loaded
  /\ Step(c, "namex_iput",
          [loc[c] EXCEPT !.next = d.h, !.after = IF d.h = NoSlot THEN "ret0" ELSE "loop"],
          [op |-> "step"])

\* mutant of NamexBody: nameiparent does not stop one level early
NamexBody_NoEarlyStop(c) ==
  /\ panicked = NoPanic /\ pc[c] = "namex_body"
  /\ \E s \in {loc[c].ip} :
        /\ ilk' = [ilk EXCEPT ![s] = NoCtx]
        /\ IF icache[s].ino.type # T_DIR
           THEN /\ Step(c, "namex_iput", [loc[c] EXCEPT !.after = "ret0"], [op |-> "step"])
                /\ UNCHANGED <<bitmap, disk, dinode, icache, panicked, held, loaded>>
           ELSE \E d \in {Dirlookup(Machine(s), icache, loc[c].name)} : NamexLooked(c, d)

\* mutant of NamexBody: iunlockput(ip) is missing after a successful dirlookup
NamexBody_NoUnlockput(c) ==
  /\ panicked = NoPanic /\ pc[c] = "namex_body"
  /\ \E s \in {loc[c].ip} :
        IF icache[s].ino.type # T_DIR
        THEN /\ ilk' = [ilk EXCEPT ![s] = NoCtx]
             /\ Step(c, "namex_iput", [loc[c] EXCEPT !.after = "ret0"], [op |-> "step"])
             /\ UNCHANGED <<bitmap, disk, dinode, icache, panicked, held, loaded>>
        ELSE IF loc[c].parent /\ loc[c].path = <<>>
        THEN /\ ilk' = [ilk EXCEPT ![s] = NoCtx]
             /\ NamexReturn(c, loc[c], s)
             /\ UNCHANGED <<bitmap, disk, dinode, icache, panicked, held, loaded>>
        ELSE \E d \in {Dirlookup(Machine(s), icache, loc[c].name)} :
               IF d.h = NoSlot
               THEN /\ ilk' = [ilk EXCEPT ![s] = NoCtx]
                    /\ NamexLooked(c, d)
               ELSE /\ bitmap' = d.m.bm /\ disk' = d.m.disk /\ dinode' = d.m.din
                    /\ icache' = d.cache
                    /\ panicked' = d.panic
                    /\ held' = [held EXCEPT ![c][d.h] = @ + 1]
                    /\ loaded' = IF d.claimed THEN [loaded EXCEPT ![d.h] = FALSE] ELSE loaded
                    /\ NamexLoop(c, [loc[c] EXCEPT !.ip = d.h])
                    /\ UNCHANGED ilk

\* namex, lines 788-802, by the holder of ip's lock: the type check, the early
\* stop of nameiparent, dirlookup; in each case up to and including iunlock(ip)
NamexBody(c) ==
  /\ panicked = NoPanic /\ pc[c] = "namex_body"
  /\ \E s \in {loc[c].ip} :
        /\ ilk' = [ilk EXCEPT ![s] = NoCtx]
        /\ IF icache[s].ino.type # T_DIR
           THEN /\ Step(c, "namex_iput", [loc[c] EXCEPT !.after = "ret0"], [op |-> "step"])
                /\ UNCHANGED <<bitmap, disk, dinode, icache, panicked, held, loaded>>
           ELSE IF loc[c].parent /\ loc[c].path = <<>>
           THEN /\ NamexReturn(c, loc[c], s)
                /\ UNCHANGED <<bitmap, disk, dinode, icache, panicked, held, loaded>>
           ELSE \E d \in {Dirlookup(Machine(s), icache, loc[c].name)} : NamexLooked(c, d)

\* iput, lines 335-346: acquiresleep(&ip->lock), and the freeing of an inode
\* without links whose last reference this is
NamexIputLock(c) ==
  /\ panicked = NoPanic /\ pc[c] = "namex_iput"
  /\ ~SleepLocked(ilk, loc[c].ip)
  /\ ilk' = [ilk EXCEPT ![loc[c].ip] = c]
  /\ \E s \in {loc[c].ip} :
        IF icache[s].valid = 1 /\ icache[s].ino.nlink = 0 /\ icache[s].ref = 1
        THEN \E t \in {IputType(Itrunc(Machine(s)))} :
               /\ bitmap' = t.bm /\ disk' = t.disk /\ dinode' = t.din
               /\ icache' = [icache EXCEPT ![s] = [t.ip EXCEPT !.valid = 0]]
               /\ panicked' = t.panic
        ELSE UNCHANGED <<bitmap, disk, dinode, icache, panicked>>
  /\ Step(c, "namex_iput_unlock", loc[c], [op |-> "step"])
  /\ UNCHANGED <<held, loaded>>

\* iput, line 348: releasesleep(&ip->lock)
NamexIputUnlock(c) ==
  /\ panicked = NoPanic /\ pc[c] = "namex_iput_unlock"
  /\ ilk' = [ilk EXCEPT ![loc[c].ip] = NoCtx]
  /\ Step(c, "namex_iput_dec", loc[c], [op |-> "step"])
  /\ UNCHANGED <<bitmap, disk, dinode, icache, panicked, held, loaded>>

\* iput, lines 350-352: ip->ref-- under icache.lock; then namex goes on with
\* ip = next (line 803), or returns 0, or the caller's iput is done
NamexIputDec(c) ==
  /\ panicked = NoPanic /\ pc[c] = "namex_iput_dec"
  /\ icache' = [icache EXCEPT ![loc[c].ip].ref = @ - 1]
  /\ held' = [held EXCEPT ![c][loc[c].ip] = @ - 1]
  /\ IF loc[c].after = "loop"
     THEN NamexLoop(c, [loc[c] EXCEPT !.ip = loc[c].next])
     ELSE IF loc[c].after = "ret0" THEN NamexReturn(c, loc[c], NoSlot)
     ELSE Step(c, "idle", NoLocals, [op |-> "step"])
  /\ UNCHANGED <<bitmap, disk, dinode, ilk, panicked, loaded>>

\* the caller drops the handle that namex returned: iput(ip)
NamexDrop(c) ==
  /\ panicked = NoPanic /\ pc[c] = "namex_have"
  /\ Step(c, "namex_iput",
          [ip |-> loc[c].ip, inum |-> 0, b |-> 0, path |-> <<>>, opath |-> <<>>,
           name |-> <<>>, buf |-> <<>>, parent |-> FALSE, next |-> NoSlot,
           after |-> "drop", refs |-> <<>>],
          [op |-> "step"])
  /\ UNCHANGED <<bitmap, disk, dinode, icache, ilk, panicked, held, loaded>>

\* the directory block of the tree's directory inum: its one entry, then zeros
TreeBlock(inum) ==
  [i \in 0 .. (BSIZE - 1) |->
     IF i < SizeofDirent THEN DeBytes(PathTree[inum][1], PathTree[inum][2])[i + 1] ELSE 0]

\* the on-disk inode of the tree's inode inum: a directory whose one block is
\* block inum, or the regular file c
TreeDinode(inum) ==
  IF inum <= Len(PathTree)
  THEN [DirDinode EXCEPT !.size = SizeofDirent, !.addrs[0] = inum]
  ELSE FileDinode

InitPath ==
  /\ sb = [size |-> PathFsSize, ninodes |-> Len(PathTree) + 2]
  /\ proc = NoProc /\ kmem = 0
  /\ bitmap = [b \in 0 .. (PathFsSize - 1) |-> b \in MetaBlocks \/ b <= Len(PathTree)]
  /\ disk = [b \in 0 .. (PathFsSize - 1) |->
               IF b \in 1 .. Len(PathTree) THEN TreeBlock(b) ELSE ZeroBlock]
  /\ dinode = [i \in 1 .. (Len(PathTree) + 1) |-> TreeDinode(i)]
  /\ icache = [s \in 0 .. (PathNINODE - 1) |->
                 IF s = CwdSlot
                 THEN [dev |-> ROOTDEV, inum |-> CwdInum, ref |-> Cardinality(Ctx),
                       valid |-> 1, ino |-> TreeDinode(CwdInum)]
                 ELSE ZeroInode]
  /\ ilk = [s \in 0 .. (PathNINODE - 1) |-> NoCtx]
  /\ held = [c \in Ctx |-> [s \in 0 .. (PathNINODE - 1) |-> IF s = CwdSlot THEN 1 ELSE 0]]
  /\ loaded = [s \in 0 .. (PathNINODE - 1) |-> s = CwdSlot]
  /\ panicked = NoPanic
  /\ last = [op |-> "none"]
  /\ pc = [c \in Ctx |-> "idle"]
  /\ loc = [c \in Ctx |-> NoLocals]
  /\ buflock = NoCtx
  /\ owned = [c \in Ctx |-> {}]

\* "/a/bb/c", "", "////", "/a/a/c" (a missing directory), "/a/bb/c/a" (a file used
\* as a directory), "bb/c" (from the current directory), "/a//bba/c/" (a long name)
PathAbbc == <<Slash, 1, Slash, 2, 2, Slash, CharC>>
PathSlashes == <<Slash, Slash, Slash, Slash>>
PathMissing == <<Slash, 1, Slash, 1, Slash, CharC>>
PathNotDir == <<Slash, 1, Slash, 2, 2, Slash, CharC, Slash, 1>>
Paths == {PathAbbc, <<>>, PathSlashes, PathMissing, PathNotDir,
          <<2, 2, Slash, CharC>>,
          <<Slash, 1, Slash, Slash, 2, 2, 1, Slash, CharC, Slash>>}

\* the steps of context c inside namex and its caller's iput
NamexSteps(c) ==
  \/ NamexIlock(c)
  \/ NamexBody(c)
  \/ NamexIputLock(c)
  \/ NamexIputUnlock(c)
  \/ NamexIputDec(c)
  \/ NamexDrop(c)

\* SpecNamex: context 1 calls namei and nameiparent, one call at a time
NextNamex ==
  \/ \E path \in Paths, parent \in BOOLEAN, buf \in DirBufs :
       NamexCall(1, path, parent, buf, RefsNow(icache))
  \/ NamexSteps(1)

SpecNamex == InitPath /\ [][NextNamex]_vars

\* SpecResolve: both contexts resolve paths at the same time
ResolvePaths == {PathAbbc, <<2, 2, Slash, CharC>>}

NextResolve ==
  \/ \E c \in Ctx, path \in ResolvePaths, parent \in BOOLEAN :
       NamexCall(c, path, parent, <<0, 0>>, <<>>)
  \/ \E c \in Ctx : NamexSteps(c)

SpecResolve == InitPath /\ [][NextResolve]_vars

(***************************************************************************)
(* The block allocator on the bytes of the bitmap blocks.  disk[BBLOCK(b)] *)
(* holds the bit of block b, as on the volume; bitmap is the decoded view  *)
(* that the other specifications work on.  A call yields                   *)
(*   disk   the blocks after the call                                      *)
(*   r      what balloc returned                                           *)
(*   panic  NoPanic or the panic message                                   *)
(*   ev     the buffer calls made, in order: <<"bread", b>>, <<"write", b>> *)
(*          for a change of bp->data, <<"log_write", b>>, <<"brelse", b>>   *)
(***************************************************************************)
\* m = 1 << (bi % 8)
BitMask(bi) == 2 ^ (bi % 8)
\* (byte & m) != 0, for a one-bit m
BitTest(byte, m) == (byte \div m) % 2 = 1
\* byte | m
BitOr(byte, m) == IF BitTest(byte, m) THEN byte ELSE byte + m
\* byte & ~m
BitAndNot(byte, m) == IF BitTest(byte, m) THEN byte - m ELSE byte

BBLOCK(b, s) == b \div BPB + s.bmapstart

\* the bit of block b in the bitmap blocks of d
BitOf(d, s, b) == BitTest(d[BBLOCK(b, s)][(b % BPB) \div 8], BitMask(b % BPB))

\* bzero(dev, bno), as buffer calls
BzeroEv(bno) == << <<"bread", bno>>, <<"write", bno>>, <<"log_write", bno>>, <<"brelse", bno>> >>

\* balloc, lines 68-72, with the bitmap block bb read: the bit is set, the buffer
\* logged and released, the block zeroed and returned
BallocTake(d, bb, b, bi, ev) ==
  [disk |-> [d EXCEPT ![bb][bi \div 8] = BitOr(@, BitMask(bi)), ![b + bi] = ZeroBlock],
   r |-> b + bi, panic |-> NoPanic,
   ev |-> ev \o << <<"write", bb>>, <<"log_write", bb>>, <<"brelse", bb>> >> \o BzeroEv(b + bi)]

\* mutant of BallocInner: the scan of a bitmap block runs to BPB, past sb.size
RECURSIVE BallocInner_NoSize(_, _, _, _, _)
RECURSIVE BallocInner(_, _, _, _, _)
RECURSIVE BallocOuter(_, _, _, _)
BallocInner_NoSize(d, s, b, bi, ev) ==
  IF ~(bi < BPB)
  THEN BallocOuter(d, s, b + BPB, ev \o << <<"brelse", BBLOCK(b, s)>> >>)
  ELSE IF ~BitTest(d[BBLOCK(b, s)][bi \div 8], BitMask(bi))
  THEN BallocTake(d, BBLOCK(b, s), b, bi, ev)
  ELSE BallocInner_NoSize(d, s, b, bi + 1, ev)

\* balloc, lines 65-74: for(bi = 0; bi < BPB && b + bi < sb.size; bi++), and
\* brelse(bp) when no bit of the block is clear
BallocInner(d, s, b, bi, ev) ==
  IF ~(bi < BPB /\ b + bi < s.size)
  THEN BallocOuter(d, s, b + BPB, ev \o << <<"brelse", BBLOCK(b, s)>> >>)
  ELSE IF ~BitTest(d[BBLOCK(b, s)][bi \div 8], BitMask(bi))
  THEN BallocTake(d, BBLOCK(b, s), b, bi, ev)
  ELSE BallocInner(d, s, b, bi + 1, ev)

\* balloc, lines 63-64 and 76: for(b = 0; b < sb.size; b += BPB) with
\* bp = bread(dev, BBLOCK(b, sb)), and the panic after the loop
BallocOuter(d, s, b, ev) ==
  IF b < s.size
  THEN BallocInner(d, s, b, 0, ev \o << <<"bread", BBLOCK(b, s)>> >>)
  ELSE [disk |-> d, r |-> 0, panic |-> "balloc: out of blocks", ev |-> ev]

\* balloc(dev) on the blocks d of a volume with superblock s
BallocBits(d, s) == BallocOuter(d, s, 0, <<>>)

\* mutant of BfreeBits: the whole byte of the bit is cleared
BfreeBits_Byte(d, s, b) ==
  IF ~BitOf(d, s, b)
  THEN [disk |-> d, r |-> 0, panic |-> "freeing free block",
        ev |-> << <<"bread", BBLOCK(b, s)>> >>]
  ELSE [disk |-> [d EXCEPT ![BBLOCK(b, s)][(b % BPB) \div 8] = 0],
        r |-> 0, panic |-> NoPanic,
        ev |-> << <<"bread", BBLOCK(b, s)>>, <<"write", BBLOCK(b, s)>>,
                  <<"log_write", BBLOCK(b, s)>>, <<"brelse", BBLOCK(b, s)>> >>]

\* bfree(dev, b), lines 86-94
BfreeBits(d, s, b) ==
  IF ~BitOf(d, s, b)
  THEN [disk |-> d, r |-> 0, panic |-> "freeing free block",
        ev |-> << <<"bread", BBLOCK(b, s)>> >>]
  ELSE [disk |-> [d EXCEPT ![BBLOCK(b, s)][(b % BPB) \div 8] = BitAndNot(@, BitMask(b % BPB))],
        r |-> 0, panic |-> NoPanic,
        ev |-> << <<"bread", BBLOCK(b, s)>>, <<"write", BBLOCK(b, s)>>,
                  <<"log_write", BBLOCK(b, s)>>, <<"brelse", BBLOCK(b, s)>> >>]

\* the decoded bitmap of the blocks d
BitsView(d, s) == [b \in 0 .. (s.size - 1) |-> BitOf(d, s, b)]

\* the result x of a call becomes the state
BitsStore(x, l) ==
  /\ disk' = x.disk
  /\ bitmap' = BitsView(x.disk, sb)
  /\ panicked' = x.panic
  /\ last' = l
  /\ UNCHANGED <<sb, pvars, dinode, icache, ilk, cvars>>

\* a call of balloc
BitsBalloc ==
  /\ panicked = NoPanic
  /\ \E x \in {BallocBits(disk, sb)} : BitsStore(x, [op |-> "balloc", r |-> x.r, ev |-> x.ev])

\* a call of bfree(dev, b)
BitsBfree(b) ==
  /\ panicked = NoPanic
  /\ \E x \in {BfreeBits(disk, sb, b)} : BitsStore(x, [op |-> "bfree", b |-> b, ev |-> x.ev])

\* the holder of the allocated block b writes it
BitsWrite(b) ==
  /\ panicked = NoPanic
  /\ bitmap[b] /\ disk[b] = ZeroBlock
  /\ BitsStore([disk |-> [disk EXCEPT ![b] = [i \in 0 .. (BSIZE - 1) |-> 1]],
                panic |-> NoPanic],
               [op |-> "write", b |-> b])

\* the bitmap block k of a volume whose blocks below BitsLow are in use: its byte
\* i holds the bits of blocks k * BPB + 8 * i .. k * BPB + 8 * i + 7
BitsBlock(k) ==
  [i \in 0 .. (BSIZE - 1) |->
     IF k * BPB + 8 * i + 8 <= BitsLow THEN ByteRange - 1
     ELSE IF k * BPB + 8 * i >= BitsLow THEN 0
     ELSE 2 ^ (BitsLow - (k * BPB + 8 * i)) - 1]

\* sb.bmapstart: the block number of the first bitmap block
BitsBmapStart == 1

InitBits ==
  /\ sb = [size |-> BitsFsSize, ninodes |-> NInodes, bmapstart |-> BitsBmapStart]
  /\ proc = NoProc /\ kmem = 0
  /\ disk = [b \in 0 .. (BitsFsSize - 1) |->
               IF b \in {BitsBmapStart, BitsBmapStart + 1} THEN BitsBlock(b - BitsBmapStart)
               ELSE ZeroBlock]
  /\ bitmap = BitsView(disk, sb)
  /\ panicked = NoPanic
  /\ last = [op |-> "none"]
  /\ pc = [c \in Ctx |-> "idle"]
  /\ loc = [c \in Ctx |-> NoLocals]
  /\ buflock = NoCtx
  /\ owned = [c \in Ctx |-> {}]
  /\ dinode = [i \in 1 .. (NInodes - 1) |-> IF i = ROOTINO THEN RootDinode ELSE ZeroDinode]
  /\ icache = [s \in 0 .. (NINODE - 1) |-> ZeroInode]
  /\ ilk = [s \in 0 .. (NINODE - 1) |-> NoCtx]
  /\ held = [c \in Ctx |-> [s \in 0 .. (NINODE - 1) |-> 0]]
  /\ loaded = [s \in 0 .. (NINODE - 1) |-> FALSE]

NextBits ==
  \/ BitsBalloc
  \/ \E b \in BitsLow .. (BitsFsSize - 1) : BitsBfree(b)
  \/ \E b \in BitsLow .. (BitsFsSize - 1) : BitsWrite(b)

SpecBits == InitBits /\ [][NextBits]_vars

(***************************************************************************)
(* The buffer calls of each operation, in the order the code makes them,   *)
(* as a sequence of <<"bread", b>>, <<"write", b>> (a store into           *)
(* bp->data), <<"log_write", b>> and <<"brelse", b>>.  The machine m is    *)
(* the state in which the operation starts; a panic ends the sequence.     *)
(* On these volumes the bitmap is one block and the inodes are in one      *)
(* block: their buffers are BitmapBuf and InodeBuf.                        *)
(***************************************************************************)
BitmapBuf == -1
InodeBuf == -2

\* a buffer that is read, changed, logged and released
BufUpdate(b) == << <<"bread", b>>, <<"write", b>>, <<"log_write", b>>, <<"brelse", b>> >>

\* balloc, and the bzero it ends with
BallocEv(m) ==
  IF BallocFree(m) = {}
  THEN << <<"bread", BitmapBuf>>, <<"brelse", BitmapBuf>> >>
  ELSE BufUpdate(BitmapBuf) \o BufUpdate(SetMin(BallocFree(m)))

\* bfree
BfreeEv(m, b) == IF ~m.bm[b] THEN << <<"bread", BitmapBuf>> >> ELSE BufUpdate(BitmapBuf)

\* iupdate
IupdateEv == BufUpdate(InodeBuf)

\* bmap: if((addr = ip->addrs[k]) == 0) ip->addrs[k] = addr = balloc(ip->dev)
BmapSlotEv(m, k) == IF m.ip.ino.addrs[k] = 0 THEN BallocEv(m) ELSE <<>>

\* mutant of BmapEntryEv: log_write(bp) is missing after a[j] = addr = balloc()
BmapEntryEv_NoLog(m, j) ==
  IF Panicked(m) THEN <<>>
  ELSE IF ReadUint(m.disk[m.r], j) # 0 THEN << <<"bread", m.r>>, <<"brelse", m.r>> >>
  ELSE IF BallocFree(m) = {} THEN << <<"bread", m.r>> >> \o BallocEv(m)
  ELSE << <<"bread", m.r>> >> \o BallocEv(m)
         \o << <<"write", m.r>>, <<"brelse", m.r>> >>

\* bmap: bp = bread(addr); if((addr = a[j]) == 0){ a[j] = addr = balloc();
\* log_write(bp); } brelse(bp), the block addr being m.r
BmapEntryEv(m, j) ==
  IF Panicked(m) THEN <<>>
  ELSE IF ReadUint(m.disk[m.r], j) # 0 THEN << <<"bread", m.r>>, <<"brelse", m.r>> >>
  ELSE IF BallocFree(m) = {} THEN << <<"bread", m.r>> >> \o BallocEv(m)
  ELSE << <<"bread", m.r>> >> \o BallocEv(m)
         \o << <<"write", m.r>>, <<"log_write", m.r>>, <<"brelse", m.r>> >>

\* bmap's double-indirect tier after the slot: the outer entry, then the inner
\* one in the machine m2 that the outer step leaves
BmapDoubleEv(m1, r) ==
  IF Panicked(m1) THEN <<>>
  ELSE BmapEntryEv(m1, BmapOuter(r)) \o BmapEntryEv(BmapEntry(m1, m1.r, BmapOuter(r)), BmapInner(r))

\* bmap
BmapEv(m, bn) ==
  IF bn < NDIRECT THEN BmapSlotEv(m, bn)
  ELSE IF bn - NDIRECT < NINDIRECT
  THEN BmapSlotEv(m, NDIRECT) \o BmapEntryEv(BmapSlot(m, NDIRECT), bn - NDIRECT)
  ELSE IF bn - NDIRECT - NINDIRECT < NINDIRECT * NINDIRECT
  THEN BmapSlotEv(m, NDIRECT + 1)
         \o BmapDoubleEv(BmapSlot(m, NDIRECT + 1), bn - NDIRECT - NINDIRECT)
  ELSE <<>>

\* writei's loop body after bmap returned m1.r: bread, memmove, log_write, brelse
WriteiCopyEv(m1) == IF Panicked(m1) THEN <<>> ELSE BufUpdate(m1.r)

\* writei's loop
RECURSIVE WriteiLoopEv(_, _, _, _, _)
WriteiLoopEv(m, v, off, tot, n) ==
  IF Panicked(m) \/ tot >= n THEN <<>>
  ELSE BmapEv(m, off \div BSIZE) \o WriteiCopyEv(Bmap(m, off \div BSIZE))
         \o WriteiLoopEv(WriteiCopy(Bmap(m, off \div BSIZE), v, off, tot, Chunk(off, tot, n)),
                         v, off + Chunk(off, tot, n), tot + Chunk(off, tot, n), n)

\* writei after its loop, w.r being the final off
WriteiEndEv(w, n) ==
  IF ~Panicked(w) /\ n > 0 /\ w.r > w.ip.ino.size THEN IupdateEv ELSE <<>>

\* writei
WriteiEv(m, v, off, n) ==
  IF m.ip.ino.type = T_DEV THEN <<>>
  ELSE IF off > m.ip.ino.size \/ U32(off + n) < off THEN <<>>
  ELSE IF U32(off + n) > WriteiCeiling THEN <<>>
  ELSE WriteiLoopEv(m, v, off, 0, n) \o WriteiEndEv(WriteiLoop(m, v, off, 0, n), n)

\* bfree of each block of a list, in order
RECURSIVE BfreeSeqEv(_, _)
BfreeSeqEv(m, bs) ==
  IF Panicked(m) \/ bs = <<>> THEN <<>>
  ELSE BfreeEv(m, Head(bs)) \o BfreeSeqEv(Bfree(m, Head(bs)), Tail(bs))

\* itrunc, direct blocks
RECURSIVE ItruncDirectEv(_, _)
ItruncDirectEv(m, i) ==
  IF Panicked(m) \/ i >= NDIRECT THEN <<>>
  ELSE IF m.ip.ino.addrs[i] # 0
  THEN BfreeEv(m, m.ip.ino.addrs[i])
         \o ItruncDirectEv([Bfree(m, m.ip.ino.addrs[i]) EXCEPT !.ip.ino.addrs[i] = 0], i + 1)
  ELSE ItruncDirectEv(m, i + 1)

\* itrunc on the index block blk whose entries are freed in the machine m, m1
\* being the machine after them: bread(blk), the bfree of each entry, and
\* brelse(blk) and bfree(blk) in the order given by inner
ItruncIndexEv(m, m1, blk, inner) ==
  << <<"bread", blk>> >> \o BfreeSeqEv(m, EntriesFrom(m.disk[blk], 0))
    \o (IF Panicked(m1) THEN <<>>
        ELSE IF inner THEN BfreeEv(m1, blk) \o << <<"brelse", blk>> >>
        ELSE << <<"brelse", blk>> >> \o BfreeEv(m1, blk))

\* itrunc, single-indirect block
ItruncSingleEv(m) ==
  IF Panicked(m) \/ m.ip.ino.addrs[NDIRECT] = 0 THEN <<>>
  ELSE ItruncIndexEv(m, BfreeSeq(m, EntriesFrom(m.disk[m.ip.ino.addrs[NDIRECT]], 0)),
                     m.ip.ino.addrs[NDIRECT], FALSE)

\* the machine after the bfree of the entries of the index block blk, and after
\* the bfree of blk that follows them
EntriesFreed(m, blk) == BfreeSeq(m, EntriesFrom(m.disk[blk], 0))
IndexFreed(m1, blk) == IF Panicked(m1) THEN m1 ELSE Bfree(m1, blk)

\* itrunc, the inner index blocks a[i..NINDIRECT-1] of the double-indirect block
RECURSIVE ItruncInnerEv(_, _, _)
ItruncInnerEv(m, a, i) ==
  IF Panicked(m) \/ i >= NINDIRECT THEN <<>>
  ELSE IF ReadUint(a, i) # 0
  THEN ItruncIndexEv(m, EntriesFreed(m, ReadUint(a, i)), ReadUint(a, i), TRUE)
         \o ItruncInnerEv(IndexFreed(EntriesFreed(m, ReadUint(a, i)), ReadUint(a, i)), a, i + 1)
  ELSE ItruncInnerEv(m, a, i + 1)

\* itrunc, double-indirect block blk, m1 being the machine after its inner blocks
ItruncOuterEv(m, m1, blk) ==
  << <<"bread", blk>> >> \o ItruncInnerEv(m, m.disk[blk], 0)
    \o (IF Panicked(m1) THEN <<>> ELSE << <<"brelse", blk>> >> \o BfreeEv(m1, blk))

ItruncDoubleEv(m) ==
  IF Panicked(m) \/ m.ip.ino.addrs[NDIRECT + 1] = 0 THEN <<>>
  ELSE ItruncOuterEv(m, ItruncInner(m, m.disk[m.ip.ino.addrs[NDIRECT + 1]], 0),
                     m.ip.ino.addrs[NDIRECT + 1])

\* itrunc
ItruncEv(m) ==
  ItruncDirectEv(m, 0) \o ItruncSingleEv(ItruncDirect(m, 0))
    \o ItruncDoubleEv(ItruncSingle(ItruncDirect(m, 0)))
    \o (IF Panicked(Itrunc(m)) THEN <<>> ELSE IupdateEv)

\* ialloc's loop from inum on: bread of the inode's block, and either the claim of
\* a free inode (memset, type, log_write, brelse) or brelse and the next inum
RECURSIVE IallocEv(_, _, _)
IallocEv(din, ninodes, inum) ==
  IF inum >= ninodes THEN <<>>
  ELSE IF din[inum].type = 0 THEN BufUpdate(InodeBuf)
  ELSE << <<"bread", InodeBuf>>, <<"brelse", InodeBuf>> >> \o IallocEv(din, ninodes, inum + 1)

\* the inum ialloc's loop stops at: the first free inode from inum on, or ninodes
RECURSIVE IallocFind(_, _, _)
IallocFind(din, ninodes, inum) ==
  IF inum >= ninodes \/ din[inum].type = 0 THEN inum
  ELSE IallocFind(din, ninodes, inum + 1)

(***************************************************************************)
(* SpecBuf: SpecOne's file and calls, and ialloc, with the buffer calls of *)
(* each call recorded in "last".                                           *)
(***************************************************************************)
BufWritei(s, v, off, n) ==
  /\ panicked = NoPanic
  /\ Held(s)
  /\ \E m \in {Writei(Machine(s), v, off, n)} :
        Store(s, m, [op |-> "writei", slot |-> s, r |-> m.r,
                     ev |-> WriteiEv(Machine(s), v, off, n)])

BufItrunc(s) ==
  /\ panicked = NoPanic
  /\ Held(s)
  /\ \E m \in {Itrunc(Machine(s))} :
        Store(s, m, [op |-> "itrunc", slot |-> s, ev |-> ItruncEv(Machine(s))])

\* ialloc(dev, T_FILE) by context 1: the scan, the claim and iget
BufIalloc ==
  /\ panicked = NoPanic
  /\ HeldTotal < MaxRefs
  /\ \E f \in {IallocFind(dinode, sb.ninodes, 1)} :
        IF f >= sb.ninodes
        THEN /\ panicked' = "ialloc: no inodes"
             /\ last' = [op |-> "ialloc", ev |-> IallocEv(dinode, sb.ninodes, 1)]
             /\ UNCHANGED <<sb, pvars, bitmap, disk, dinode, icache, ilk, cvars>>
        ELSE /\ dinode' = [dinode EXCEPT ![f] = [ZeroDinode EXCEPT !.type = T_FILE]]
             /\ \E g \in {Iget(icache, ROOTDEV, f)} :
                   IgetReturn(1, g, [op |-> "ialloc", ev |-> IallocEv(dinode, sb.ninodes, 1)])
             /\ UNCHANGED <<bitmap, disk, ilk>>

InitBuf == InitFiles(OneFsSize, {1})

NextBuf ==
  \/ \E s \in Slots, v \in SrcVals : \E off \in WriteOffs(icache[s].ino.size), n \in WriteLens :
       BufWritei(s, v, off, n)
  \/ \E s \in Slots : BufItrunc(s)
  \/ BufIalloc

SpecBuf == InitBuf /\ [][NextBuf]_vars

(***************************************************************************)
(* The block map and writei at the geometry of fs.h (BSIZE 512, NDIRECT    *)
(* 11, NINDIRECT 128): the same statements as Balloc, Bmap and Writei,     *)
(* over blocks of RealBSIZE bytes and an address table of RealNDIRECT + 2  *)
(* slots.                                                                  *)
(***************************************************************************)
RealZeroBlock == [i \in 0 .. (RealBSIZE - 1) |-> 0]
RealZeroDinode == [ZeroDinode EXCEPT !.addrs = [i \in 0 .. (RealNDIRECT + 1) |-> 0]]

\* balloc, with its result b: the bit set and the block zeroed
RealBallocTake(m, b) == [m EXCEPT !.bm[b] = TRUE, !.disk[b] = RealZeroBlock, !.r = b]

\* balloc
RealBalloc(m) ==
  IF BallocFree(m) = {}
  THEN [m EXCEPT !.panic = "balloc: out of blocks"]
  ELSE RealBallocTake(m, SetMin(BallocFree(m)))

\* ip->addrs[k] = addr = balloc(ip->dev), a being the machine after balloc
RealSlotSet(a, k) == IF Panicked(a) THEN a ELSE [a EXCEPT !.ip.ino.addrs[k] = a.r]

\* if((addr = ip->addrs[k]) == 0) ip->addrs[k] = addr = balloc(ip->dev);
RealBmapSlot(m, k) ==
  IF Panicked(m) THEN m
  ELSE IF m.ip.ino.addrs[k] = 0 THEN RealSlotSet(RealBalloc(m), k)
  ELSE [m EXCEPT !.r = m.ip.ino.addrs[k]]

\* a[j] = addr = balloc(ip->dev); log_write(bp), a being the machine after balloc
RealEntrySet(a, blk, j) ==
  IF Panicked(a) THEN a ELSE [a EXCEPT !.disk[blk] = WriteUint(@, j, a.r)]

\* bp = bread(addr); a = bp->data; if((addr = a[j]) == 0){ ... }; brelse(bp), the
\* block addr being m.r
RealBmapEntry(m, j) ==
  IF Panicked(m) THEN m
  ELSE IF ReadUint(m.disk[m.r], j) = 0 THEN RealEntrySet(RealBalloc(m), m.r, j)
  ELSE [m EXCEPT !.r = ReadUint(m.disk[m.r], j)]

\* mutant of RealBmapInner: posBSI taken after bn = bn/NINDIRECT
RealBmapInner_AfterDiv(r) == (r \div RealNINDIRECT) % RealNINDIRECT

\* bmap, line 483: int posBSI = bn%NINDIRECT
RealBmapInner(r) == r % RealNINDIRECT

\* bmap
RealBmap(m, bn) ==
  IF bn < RealNDIRECT THEN RealBmapSlot(m, bn)
  ELSE IF bn - RealNDIRECT < RealNINDIRECT
  THEN RealBmapEntry(RealBmapSlot(m, RealNDIRECT), bn - RealNDIRECT)
  ELSE IF bn - RealNDIRECT - RealNINDIRECT < RealNINDIRECT * RealNINDIRECT
  THEN RealBmapEntry(
         RealBmapEntry(RealBmapSlot(m, RealNDIRECT + 1),
                       (bn - RealNDIRECT - RealNINDIRECT) \div RealNINDIRECT),
         RealBmapInner(bn - RealNDIRECT - RealNINDIRECT))
  ELSE [m EXCEPT !.panic = "bmap: out of range"]

\* m = min(n - tot, BSIZE - off%BSIZE)
RealChunk(off, tot, n) == Min2(n - tot, RealBSIZE - (off % RealBSIZE))

\* memmove(bp->data + off%BSIZE, src, m) into the block m1.r; log_write; brelse
RealWriteiCopy(m1, v, off, tot, k) ==
  IF Panicked(m1) THEN m1
  ELSE [m1 EXCEPT !.disk[m1.r] =
          [i \in 0 .. (RealBSIZE - 1) |->
             IF i >= off % RealBSIZE /\ i < (off % RealBSIZE) + k
             THEN SrcByte(v, tot + (i - (off % RealBSIZE))) ELSE @[i]]]

\* writei's loop; m.r is the final off
RECURSIVE RealWriteiLoop(_, _, _, _, _)
RealWriteiLoop(m, v, off, tot, n) ==
  IF Panicked(m) THEN m
  ELSE IF tot >= n THEN [m EXCEPT !.r = off]
  ELSE RealWriteiLoop(
         RealWriteiCopy(RealBmap(m, off \div RealBSIZE), v, off, tot, RealChunk(off, tot, n)),
         v, off + RealChunk(off, tot, n), tot + RealChunk(off, tot, n), n)

\* writei
RealWritei(m, v, off, n) ==
  IF m.ip.ino.type = T_DEV
  THEN IF m.ip.ino.major < 0 \/ m.ip.ino.major >= NDEV \/ ~DevswWrite(m.ip.ino.major)
       THEN [m EXCEPT !.r = -1]
       ELSE [m EXCEPT !.r = n]
  ELSE IF off > m.ip.ino.size \/ U32(off + n) < off THEN [m EXCEPT !.r = -1]
  ELSE IF U32(off + n) > RealMAXFILE * RealBSIZE THEN [m EXCEPT !.r = -1]
  ELSE WriteiEnd(RealWriteiLoop(m, v, off, 0, n), n)

\* the lengths written: short files of whole blocks and one byte more or less,
\* 2000 bytes, and the files around the start of the double-indirect tier
RealLens ==
  {RealBSIZE * k + d : k \in 0 .. RealSmallBlocks, d \in {0, 1, RealBSIZE - 1}}
    \cup {2000, RealBSIZE * (RealNDIRECT + RealNINDIRECT) + 1}
    \cup {RealBSIZE * k : k \in (RealNDIRECT + RealNINDIRECT - 1) .. RealMaxBlocks}

\* writei(ip, src, 0, n) on the inode of slot 0, just allocated and locked
RealDoWritei(n) ==
  /\ panicked = NoPanic
  /\ icache[0].ino.size = 0
  /\ \E m \in {RealWritei(Machine(0), <<1>>, 0, n)} :
        Store(0, m, [op |-> "writei", off |-> 0, n |-> n, r |-> m.r])

\* a volume with one inode that ialloc and ilock have just handed out: type set,
\* size 0, no block mapped
InitReal ==
  /\ sb = [size |-> RealFsSize, ninodes |-> NInodes]
  /\ proc = NoProc /\ kmem = 0
  /\ bitmap = [b \in 0 .. (RealFsSize - 1) |-> b \in MetaBlocks]
  /\ disk = [b \in 0 .. (RealFsSize - 1) |-> RealZeroBlock]
  /\ panicked = NoPanic
  /\ last = [op |-> "none"]
  /\ pc = [c \in Ctx |-> "idle"]
  /\ loc = [c \in Ctx |-> NoLocals]
  /\ buflock = NoCtx
  /\ owned = [c \in Ctx |-> {}]
  /\ dinode = [i \in 1 .. (NInodes - 1) |->
                 IF i = ROOTINO THEN [RealZeroDinode EXCEPT !.type = T_FILE, !.nlink = 1]
                 ELSE RealZeroDinode]
  /\ icache = [s \in 0 .. (NINODE - 1) |->
                 IF s = 0
                 THEN [dev |-> ROOTDEV, inum |-> ROOTINO, ref |-> 1, valid |-> 1,
                       ino |-> [RealZeroDinode EXCEPT !.type = T_FILE, !.nlink = 1]]
                 ELSE ZeroInode]
  /\ ilk = [s \in 0 .. (NINODE - 1) |-> IF s = 0 THEN 1 ELSE NoCtx]
  /\ held = [c \in Ctx |-> [s \in 0 .. (NINODE - 1) |-> IF c = 1 /\ s = 0 THEN 1 ELSE 0]]
  /\ loaded = [s \in 0 .. (NINODE - 1) |-> s = 0]

NextReal == \E n \in RealLens : RealDoWritei(n)

SpecReal == InitReal /\ [][NextReal]_vars

(***************************************************************************)
(* Claims about the block map, truncation and the write ceiling.           *)
(***************************************************************************)
\* the blocks referred to by the inodes held in the cache, one element per reference
RECURSIVE SlotRefs(_)
SlotRefs(s) ==
  IF s \notin Slots THEN <<>>
  ELSE (IF Held(s) THEN Refs(disk, icache[s].ino.addrs) ELSE <<>>) \o SlotRefs(s + 1)

\* C3: after any sequence of writei and itrunc calls on two inodes, every block an
\* inode refers to (direct slot, index block, index-block entry) is marked in the
\* bitmap, no block is referred to twice, and every data-area block marked in the
\* bitmap is referred to by some inode.
C3_BlocksConsistent ==
  LET r == SlotRefs(0)
  IN /\ \A i \in DOMAIN r : r[i] \in Blocks \ MetaBlocks /\ bitmap[r[i]]
     /\ \A i, j \in DOMAIN r : i # j => r[i] # r[j]
     /\ \A b \in Blocks \ MetaBlocks : bitmap[b] => b \in Range(r)

\* C3 witness: both files own blocks, one of them through its double-indirect
\* block, and that file's single-indirect block has a lower number than its first
\* direct block (it reuses a block that a truncation of the other file freed).
C3_Witness ==
  /\ panicked = NoPanic
  /\ \E s, t \in Slots :
       /\ s # t /\ Held(s) /\ Held(t)
       /\ icache[s].ino.addrs[NDIRECT + 1] # 0
       /\ icache[s].ino.addrs[NDIRECT] < icache[s].ino.addrs[0]
       /\ icache[t].ino.addrs[0] # 0

\* C4: when itrunc returns, size is 0, every address slot is 0, the on-disk inode
\* equals the cached one, every block the inode referred to before the call has its
\* bit cleared (no bit is cleared twice: bfree never panics), and no other bit changes.
C4_ItruncStep ==
  (last'.op = "itrunc") =>
     LET s == last'.slot
         old == Refs(disk, icache[s].ino.addrs)
     IN /\ panicked' = NoPanic
        /\ icache'[s].ino.size = 0
        /\ icache'[s].ino.addrs = ZeroAddrs
        /\ dinode'[icache[s].inum] = icache'[s].ino
        /\ \A i, j \in DOMAIN old : i # j => old[i] # old[j]
        /\ \A b \in Blocks : bitmap'[b] = (bitmap[b] /\ b \notin Range(old))
        /\ \A b \in Range(old) : bitmap[b]

C4_ItruncComplete == [][C4_ItruncStep]_vars

\* C4 witness: an itrunc has returned that freed a file using all three tiers in full.
C4_Witness ==
  /\ last.op = "itrunc"
  /\ last.freed = MAXFILE + 2 + NINDIRECT
  /\ panicked = NoPanic

\* the address the tiers give for logical block bn, 0 where a block is missing
Lookup(d, addrs, bn) ==
  IF bn < NDIRECT THEN addrs[bn]
  ELSE IF bn < NDIRECT + NINDIRECT
  THEN IF addrs[NDIRECT] = 0 THEN 0 ELSE ReadUint(d[addrs[NDIRECT]], bn - NDIRECT)
  ELSE LET r == bn - NDIRECT - NINDIRECT
       IN IF addrs[NDIRECT + 1] = 0 THEN 0
          ELSE LET inner == ReadUint(d[addrs[NDIRECT + 1]], r \div NINDIRECT)
               IN IF inner = 0 THEN 0 ELSE ReadUint(d[inner], r % NINDIRECT)

\* C5: bmap(ip, bn) panics for bn >= MAXFILE; otherwise, unless balloc runs out of
\* blocks, it returns the nonzero address that the tier of bn holds after the call;
\* when that address was already there nothing changes (a second bmap allocates
\* nothing), and when it was missing the returned block is newly allocated and the
\* mapping of every other logical block is as before.
C5_BmapStep ==
  (last'.op = "bmap") =>
     LET s == last'.slot
         bn == last'.bn
         old == Lookup(disk, icache[s].ino.addrs, bn)
     IN IF bn >= MAXFILE THEN panicked' = "bmap: out of range"
        ELSE /\ panicked' \in {NoPanic, "balloc: out of blocks"}
             /\ panicked' = NoPanic =>
                  /\ last'.r # 0
                  /\ Lookup(disk', icache'[s].ino.addrs, bn) = last'.r
                  /\ old # 0 => /\ last'.r = old
                                /\ UNCHANGED <<bitmap, disk, icache, dinode>>
                  /\ old = 0 => /\ ~bitmap[last'.r] /\ bitmap'[last'.r]
                                /\ \A b2 \in 0 .. (MAXFILE - 1) :
                                     (b2 # bn /\ Lookup(disk, icache[s].ino.addrs, b2) # 0)
                                       => Lookup(disk', icache'[s].ino.addrs, b2)
                                            = Lookup(disk, icache[s].ino.addrs, b2)

C5_BmapTiers == [][C5_BmapStep]_vars

\* C5 witness: bmap has returned a block of the double-indirect tier with outer
\* index 0 and inner index 1, and the last logical block of the file is mapped too.
C5_Witness ==
  /\ last.op = "bmap" /\ panicked = NoPanic
  /\ last.bn = NDIRECT + NINDIRECT + 1
  /\ last.r # 0
  /\ Lookup(disk, icache[last.slot].ino.addrs, MAXFILE - 1) # 0

\* C10: the size of a regular inode never exceeds MAXFILE*BSIZE, in the cache and
\* on disk, and a writei with off + n > MAXFILE*BSIZE returns -1 and changes neither
\* the inode, the on-disk inode, the bitmap nor any block.
C10_SizeBounded ==
  /\ \A s \in Slots : icache[s].ino.type = T_FILE => icache[s].ino.size <= MAXFILE * BSIZE
  /\ \A i \in DOMAIN dinode : dinode[i].type = T_FILE => dinode[i].size <= MAXFILE * BSIZE

C10_CeilingStep ==
  (last'.op = "writei" /\ last'.over) =>
     /\ last'.r = -1
     /\ panicked' = NoPanic
     /\ UNCHANGED <<bitmap, disk, dinode, icache>>

C10_WriteCeiling == []C10_SizeBounded /\ [][C10_CeilingStep]_vars

\* C10 witness: a file of exactly MAXFILE*BSIZE bytes, and a write at its end that
\* passes the other checks of writei has been refused.
C10_Witness ==
  /\ last.op = "writei" /\ last.over /\ last.pre /\ last.r = -1
  /\ icache[last.slot].ino.size = MAXFILE * BSIZE

(***************************************************************************)
(* Claims about the inode cache and the block allocator under concurrency. *)
(***************************************************************************)
\* C1 (stated as the claim has it): in every interleaving of iput calls, a slot
\* whose reference count has fallen to zero while its handle is valid and its link
\* count is 0 belongs to an inode that is free on disk (type == 0).
C1_FreedWhenDropped ==
  \A s \in Slots :
     (icache[s].ref = 0 /\ icache[s].valid = 1 /\ icache[s].ino.nlink = 0)
       => dinode[icache[s].inum].type = 0

\* the blocks a context owns or is about to be handed by a balloc past its test
Pending(c) == IF pc[c] \in {"balloc_set", "balloc_brelse", "balloc_bzero"} THEN {loc[c].b} ELSE {}

\* C2: no block is owned by, or on its way to, two contexts at once, every such
\* block has its bit set, and a block is written only by its owner: the test of a
\* bit and its setting are not interleaved with another allocator's.
C2_NoSharedBlock ==
  /\ \A c, d \in Ctx : c # d => (owned[c] \cup Pending(c)) \cap (owned[d] \cup Pending(d)) = {}
  /\ \A c \in Ctx : \A b \in owned[c] : bitmap[b] /\ b \notin MetaBlocks
  /\ \A c \in Ctx : \A b \in owned[c] : disk[b] \in {ZeroBlock, [i \in 0 .. (BSIZE - 1) |-> c]}
  /\ panicked # "freeing free block"

\* C2 witness: two balloc calls overlap, one not yet returned from bzero and the
\* other past its test with a lower block number, which it had owned and freed
\* after the first call's test.
C2_Witness ==
  \E c, d \in Ctx :
     /\ c # d
     /\ pc[c] = "balloc_bzero" /\ pc[d] = "balloc_brelse"
     /\ loc[d].b < loc[c].b
     /\ bitmap[loc[c].b] /\ bitmap[loc[d].b]

\* the references to slot s that contexts own
Owners(s) == LET RECURSIVE Sum(_)
                 Sum(c) == IF c \notin Ctx THEN 0 ELSE held[c][s] + Sum(c + 1)
             IN Sum(1)

\* C6: the reference count of a slot is the number of iget/idup calls on it whose
\* iput has not completed, so it is never negative and is 0 again once every call
\* is matched; a slot with ref == 0 is one iget may claim for another inode.
C6_RefBalanced ==
  \A s \in Slots :
     /\ icache[s].ref = Owners(s)
     /\ icache[s].ref >= 0
     /\ \A c \in Ctx : (pc[c] \in {"iput_free", "iput_release", "iput_dec"}
                         /\ loc[c].ip = s) => held[c][s] >= 1

\* C6 witness: iget has claimed, for the root, a slot whose references to a file
\* that still had a link were all dropped (the slot still carries the file's
\* fields), after every reference to the root had been dropped as well.
C6_Witness ==
  /\ panicked = NoPanic
  /\ \E s \in Slots :
       /\ icache[s].inum = ROOTINO /\ icache[s].ref = 1 /\ icache[s].valid = 0
       /\ icache[s].ino.type = T_FILE /\ icache[s].ino.nlink = 1
       /\ \E c \in Ctx : held[c][s] = 1

\* C7: at most one slot with ref > 0 holds a given (dev, inum), and a step that
\* hands out a reference (iget, also from ialloc, or idup) has added it to the slot that
\* already held the inode with ref > 0 if there was one, and has otherwise claimed
\* a slot with ref == 0, leaving every other slot as it was.
C7_UniqueSlot ==
  \A s, t \in Slots :
     (s # t /\ icache[s].ref > 0 /\ icache[t].ref > 0)
       => <<icache[s].dev, icache[s].inum>> # <<icache[t].dev, icache[t].inum>>

C7_IgetStep ==
  \A c \in Ctx, s \in Slots :
     (held'[c][s] = held[c][s] + 1 /\ panicked' = NoPanic) =>
        LET found == {t \in Slots : /\ icache[t].ref > 0
                                    /\ icache[t].dev = icache'[s].dev
                                    /\ icache[t].inum = icache'[s].inum}
        IN IF found # {}
           THEN s \in found /\ icache' = [icache EXCEPT ![s].ref = @ + 1]
           ELSE /\ icache[s].ref = 0 /\ icache'[s].ref = 1
                /\ \A t \in Slots \ {s} : icache'[t] = icache[t]

C7_OneSlotPerInode == []C7_UniqueSlot /\ [][C7_IgetStep]_vars

\* C7 witness: both contexts hold the same slot (ref == 2) while another slot
\* holds a different inode and a third reference.
C7_Witness ==
  /\ panicked = NoPanic
  /\ \E s, t \in Slots :
       /\ s # t
       /\ icache[s].ref = 2 /\ \A c \in Ctx : held[c][s] = 1
       /\ icache[t].ref = 1 /\ icache[t].inum # icache[s].inum

\* ialloc returns slot s to context c in this step
IallocReturns(c, s) ==
  /\ pc[c] = "ialloc_iget" /\ pc'[c] = "idle"
  /\ panicked' = NoPanic
  /\ held'[c][s] = held[c][s] + 1

\* ialloc claims an inode in this step: its on-disk type was 0 and is now type
IallocClaims ==
  \A c \in Ctx :
     (pc[c] = "ialloc_scan" /\ pc'[c] = "ialloc_iget") =>
        /\ loc'[c].inum >= 1
        /\ dinode[loc'[c].inum].type = 0
        /\ dinode'[loc'[c].inum].type = T_FILE

\* the contexts other than c that are past the freeing part of an iput of slot s
Finishing(c, s) ==
  {d \in Ctx \ {c} : pc[d] \in {"iput_release", "iput_dec"} /\ loc[d].ip = s}

\* two ialloc calls between their claim and their iget hold different inode numbers
C8_DistinctClaims ==
  \A c, d \in Ctx :
     (c # d /\ pc[c] = "ialloc_iget" /\ pc[d] = "ialloc_iget") => loc[c].inum # loc[d].inum

\* C8 (as stated): ialloc returns an unlocked handle with ref == 1 for an inode
\* number >= 1 whose on-disk type was 0 and is now type, in every interleaving.
C8_StatedStep ==
  /\ IallocClaims
  /\ \A c \in Ctx, s \in Slots :
        IallocReturns(c, s) =>
           /\ icache'[s].inum = loc[c].inum /\ loc[c].inum >= 1
           /\ dinode'[loc[c].inum].type = T_FILE
           /\ icache'[s].ref = 1
           /\ ilk'[s] = NoCtx

C8_Stated == []C8_DistinctClaims /\ [][C8_StatedStep]_vars

\* C8 (amended): ialloc returns a handle for an inode number >= 1 whose on-disk
\* type was 0 and is now type; the caller does not hold its lock; ref is 1 plus the
\* number of other contexts that are finishing an iput which freed that inode
\* number (each still owns its reference, and may still hold the lock until its
\* releasesleep); without such an iput ref == 1 and the handle is unlocked.  Two
\* concurrent ialloc calls never claim the same inode number.
C8_AmendedStep ==
  /\ IallocClaims
  /\ \A c \in Ctx, s \in Slots :
        IallocReturns(c, s) =>
           /\ icache'[s].inum = loc[c].inum /\ loc[c].inum >= 1
           /\ dinode'[loc[c].inum].type = T_FILE
           /\ icache'[s].ref = 1 + Cardinality(Finishing(c, s))
           /\ ilk'[s] # c
           /\ ilk'[s] # NoCtx => (ilk'[s] \in Finishing(c, s) /\ pc[ilk'[s]] = "iput_release")

C8_IallocReturn == []C8_DistinctClaims /\ [][C8_AmendedStep]_vars

\* C8 witness: ialloc has returned an inode number to one context while the other
\* context, whose iput freed that inode number, still holds the lock and its
\* reference.
C8_Witness ==
  /\ panicked = NoPanic
  /\ \E c, d \in Ctx, s \in Slots :
       /\ c # d
       /\ pc[c] = "idle" /\ held[c][s] = 1
       /\ pc[d] = "iput_release" /\ loc[d].ip = s /\ ilk[s] = d
       /\ icache[s].ref = 2 /\ icache[s].valid = 0
       /\ dinode[icache[s].inum].type = T_FILE /\ dinode[icache[s].inum].nlink = 0

\* C9: a handle has valid == 1 only if ilock loaded its fields after the slot was
\* last claimed; a step that claims a slot (ref 0 -> 1) leaves valid == 0, and the
\* step of iput that frees an on-disk inode leaves valid == 0 in its handle.
C9_ValidLoaded == \A s \in Slots : icache[s].valid = 1 => loaded[s]

C9_Step ==
  /\ \A s \in Slots : (icache[s].ref = 0 /\ icache'[s].ref = 1) => icache'[s].valid = 0
  /\ \A i \in Inums : (dinode[i].type # 0 /\ dinode'[i].type = 0) =>
        \E c \in Ctx : /\ pc[c] = "iput_free"
                       /\ icache[loc[c].ip].inum = i
                       /\ icache'[loc[c].ip].valid = 0

C9_ValidOnlyLoaded == []C9_ValidLoaded /\ [][C9_Step]_vars

\* C9 witness: a slot that was loaded with the root inode and then dropped has been
\* claimed for the root again: it still carries the root's fields but is not valid.
C9_Witness ==
  \E s \in Slots :
     /\ icache[s].inum = ROOTINO /\ icache[s].ref = 1
     /\ icache[s].ino = RootDinode
     /\ icache[s].valid = 0 /\ ~loaded[s]

(***************************************************************************)
(* Claims about readi and writei.                                          *)
(***************************************************************************)
\* the call recorded by this step fails one of the checks the claim names
IoRejected ==
  LET ip == icache[last'.slot]
  IN IF ip.ino.type = T_DEV
     THEN \/ ip.ino.major < 0 \/ ip.ino.major >= NDEV
          \/ (last'.op = "readi" /\ ~DevswRead(ip.ino.major))
          \/ (last'.op = "writei" /\ ~DevswWrite(ip.ino.major))
     ELSE last'.off > ip.ino.size \/ last'.off + last'.n >= UintRange

\* C11: a readi or writei call with off > size, with off + n wrapping around the
\* width of a uint, or on a device inode whose major is out of range or has no
\* callback, returns -1; and every call that returns -1 leaves the cached inode,
\* the on-disk inode, the bitmap and all blocks unchanged and does not panic.
C11_FailStep ==
  (last'.op \in {"readi", "writei"}) =>
     /\ IoRejected => last'.r = -1
     /\ last'.r = -1 => (panicked' = NoPanic /\ UNCHANGED <<bitmap, disk, dinode, icache>>)

C11_FailuresLeaveState == [][C11_FailStep]_vars

\* C11 witness: a read of the regular file, grown past its first block, whose
\* off + n wraps has been refused, and the device inode's major is out of range.
C11_Witness ==
  /\ last.op = "readi" /\ last.r = -1
  /\ icache[last.slot].ino.type = T_FILE
  /\ icache[last.slot].ino.size > BSIZE
  /\ last.off >= 1 /\ last.off <= icache[last.slot].ino.size
  /\ last.off + last.n >= UintRange
  /\ \E s \in Slots : icache[s].ino.type = T_DEV /\ icache[s].ino.major >= NDEV

\* C12: a writei on a regular inode that passes the checks and does not panic
\* returns n and leaves size == max(old size, off + n); when off + n > old size the
\* on-disk inode is the cached inode with the new size, and when off + n <= old
\* size (also when n == 0) the size is unchanged in the cache and on disk.
C12_WriteStep ==
  (last'.op = "writei" /\ WriteiAccepts(icache[last'.slot], last'.off, last'.n)
     /\ panicked' = NoPanic) =>
     LET s == last'.slot
         old == icache[s].ino.size
         end == last'.off + last'.n
     IN /\ last'.r = last'.n
        /\ icache'[s].ino.size = (IF end > old THEN end ELSE old)
        /\ end > old => dinode'[icache[s].inum] = icache'[s].ino
        /\ end <= old => dinode'[icache[s].inum].size = dinode[icache[s].inum].size

C12_WriteSize == [][C12_WriteStep]_vars

\* C12 witness: a write that starts inside the first block and ends in the second
\* has grown the file, and the on-disk size is the new size.
C12_Witness ==
  /\ last.op = "writei" /\ panicked = NoPanic
  /\ last.off > 0 /\ last.off < BSIZE /\ last.off + last.n > BSIZE
  /\ last.r = last.n
  /\ icache[last.slot].ino.size = last.off + last.n
  /\ dinode[icache[last.slot].inum].size = last.off + last.n

\* C13: readi on a regular inode with off <= size and no wrap of off + n returns
\* min(n, size - off) and copies to dst exactly the bytes that the earlier writei
\* calls stored at the file offsets [off, off + result); the recorded content
\* always has the length of the file.
C13_ReadStep ==
  (last'.op = "readi" /\ icache[last'.slot].ino.type = T_FILE
     /\ last'.off <= icache[last'.slot].ino.size
     /\ last'.off + last'.n < UintRange) =>
     LET size == icache[last'.slot].ino.size
         res == Min2(last'.n, size - last'.off)
     IN /\ panicked' = NoPanic
        /\ last'.r = res
        /\ Len(last.data) = size
        /\ last'.dst = [i \in 1 .. res |-> last.data[last'.off + i]]

C13_ReadReturnsWritten == [][C13_ReadStep]_vars

\* C13 witness: a read that starts in the first block and is cut short by the end
\* of the file in the second block has returned bytes of two different writes.
C13_Witness ==
  /\ last.op = "readi" /\ panicked = NoPanic
  /\ icache[last.slot].ino.type = T_FILE
  /\ last.r > 0 /\ last.r < last.n
  /\ last.off > 0 /\ last.off < BSIZE /\ last.off + last.r > BSIZE
  /\ {1, 2} \subseteq Range(last.dst)


(***************************************************************************)
(* Claims about directories.                                               *)
(***************************************************************************)
\* the call recorded in last' is a call of dirlink for a name that dirlookup finds
\* in the directory as it is before the call
DirlinkFinds == last'.op = "dirlink" /\ DirlookupLoop(Machine(DirSlot), last'.name, 0).hit

\* the inode number of the entry that dirlookup finds for the name of that call
DirlinkFound == DirlookupLoop(Machine(DirSlot), last'.name, 0).inum

C14_ExistsStep ==
  DirlinkFinds =>
    /\ last'.returned /\ last'.r = -1
    /\ icache'[DirSlot].ino.size = icache[DirSlot].ino.size
    /\ DirEntries(disk', icache'[DirSlot]) = DirEntries(disk, icache[DirSlot])
    /\ RefOf(icache', DirlinkFound) = RefOf(icache, DirlinkFound)

\* C14: dirlink(dp, name, inum) returns -1 whenever dirlookup(dp, name) finds an
\* entry, and then the directory's entries and size and the reference count of the
\* inode found are as before the call.
C14_ExistingNameRejected == [][C14_ExistsStep]_vars

\* the directory as the call recorded in last' leaves it
DirAfter == [bm |-> bitmap', disk |-> disk', din |-> dinode', ip |-> icache'[DirSlot],
             panic |-> panicked', r |-> 0]

\* the number (from 1) of the record a new entry goes to: the first with inum == 0,
\* or one past the last
DirFreeRecord(es) ==
  LET holes == {k \in 1 .. Len(es) : es[k][1] = 0}
  IN IF holes = {} THEN Len(es) + 1 ELSE SetMin(holes)

C15_LinkStep ==
  (last'.op = "dirlink" /\ last'.returned /\ last'.r = 0) =>
    LET old == DirEntries(disk, icache[DirSlot])
        new == DirEntries(disk', icache'[DirSlot])
        pos == DirFreeRecord(old)
        f == DirlookupLoop(DirAfter, last'.name, 0)
    IN /\ f.hit /\ f.inum = last'.inum
       /\ last'.off = (pos - 1) * SizeofDirent
       /\ Len(new) = (IF pos > Len(old) THEN Len(old) + 1 ELSE Len(old))
       /\ new[pos][2] = Strncpy(last'.name, DIRSIZ)
       /\ \A k \in 1 .. Len(old) : k # pos => new[k] = old[k]

\* C15: for every directory, name and uint inum, after dirlink(dp, name, inum)
\* returns 0, dirlookup(dp, name) returns the inode with number inum, and the new
\* record is the first record that had inum == 0 or, when there was none, is
\* appended at the old size.
C15_LinkThenLookup == [][C15_LinkStep]_vars

\* the first DIRSIZ chars of a name, NULs after its end
NameKey(p) ==
  [i \in 1 .. DIRSIZ |-> IF \A j \in 1 .. i : CharAt(p, j - 1) # 0 THEN CharAt(p, i - 1) ELSE 0]

\* the names that callers pass and that skipelem produces
AllNames == DirNames \cup {Skipelem(p, b).name : p \in DirPaths, b \in DirBufs}

\* the names that agree with p on the first DIRSIZ chars
SameKey(p) == {q \in AllNames : NameKey(q) = NameKey(p)}

\* path is a slashes, a component of l chars, b slashes and then rest
SplitsAs(path, a, l, b, rest) ==
  /\ a + l + b <= Len(path)
  /\ \A i \in 1 .. a : path[i] = Slash
  /\ \A i \in (a + 1) .. (a + l) : path[i] # Slash
  /\ \A i \in (a + l + 1) .. (a + l + b) : path[i] = Slash
  /\ rest = SubSeq(path, a + l + b + 1, Len(path))
  /\ rest = <<>> \/ rest[1] # Slash

\* name[] holds the first chars of the component of l chars that starts after a
\* chars of path: all DIRSIZ of them without a NUL, or the l chars and a NUL
HoldsElem(name, path, a, l) ==
  /\ Len(name) = DIRSIZ
  /\ \A i \in 1 .. Min2(l, DIRSIZ) : name[i] = path[a + i]
  /\ l < DIRSIZ => name[l + 1] = 0
  /\ l >= DIRSIZ => \A i \in 1 .. DIRSIZ : name[i] # 0

C16_NameStep ==
  /\ last'.op = "dirlookup" =>
       /\ last'.ok = (\E i \in 1 .. Len(last'.path) : last'.path[i] # Slash)
       /\ last'.ok =>
            /\ \E a \in 0 .. Len(last'.path), l \in 1 .. Len(last'.path),
                  b \in 0 .. Len(last'.path) :
                 /\ SplitsAs(last'.path, a, l, b, last'.rest)
                 /\ HoldsElem(last'.name, last'.path, a, l)
            /\ \A q \in SameKey(last'.name) :
                 LET f == DirlookupLoop(Machine(DirSlot), q, 0)
                 IN /\ f.hit = (last'.h # NoSlot)
                    /\ f.hit => f.off = last'.off /\ f.inum = icache'[last'.h].inum
  /\ last'.op = "dirlink" =>
       /\ \A q \in SameKey(last'.name) :
            DirlookupLoop(Machine(DirSlot), q, 0).hit = (last'.r = -1)
       /\ (last'.returned /\ last'.r = 0) =>
            DirEntries(disk', icache'[DirSlot])[(last'.off \div SizeofDirent) + 1][2]
              = NameKey(last'.name)

\* C16: names are compared over their first DIRSIZ chars only: names that agree on
\* them are the same entry for dirlookup and for dirlink, which stores the first
\* DIRSIZ chars; skipelem copies at most DIRSIZ chars of a path element (a longer
\* one is cut, one of DIRSIZ chars or more is left without a NUL) and returns the
\* path after the whole element and the slashes that follow it.
C16_NamesByPrefix == [][C16_NameStep]_vars

\* C16 happens: the element "aba" of "/aba//b" was cut to "ab", the path left is
\* "b", and dirlookup found the entry stored under a name of DIRSIZ chars
C16_Witness ==
  /\ last.op = "dirlookup" /\ last.ok /\ last.returned
  /\ last.path = <<Slash, 1, 2, 1, Slash, Slash, 2>>
  /\ last.name = <<1, 2>> /\ last.rest = <<2>>
  /\ last.h # NoSlot
  /\ DirEntries(disk, icache[DirSlot])[(last.off \div SizeofDirent) + 1][2] = <<1, 2>>


(***************************************************************************)
(* Claims about path resolution.  What a path names is defined on the tree *)
(* itself: its elements, and the walk from the root or the current         *)
(* directory along them.                                                   *)
(***************************************************************************)
\* the elements of a path, without the slashes
RECURSIVE Comps(_)
Comps(p) ==
  IF p = <<>> THEN <<>>
  ELSE IF Head(p) = Slash THEN Comps(Tail(p))
  ELSE LET n == CHOOSE k \in 1 .. Len(p) :
                  /\ \A j \in 1 .. k : p[j] # Slash
                  /\ k = Len(p) \/ p[k + 1] = Slash
       IN <<SubSeq(p, 1, n)>> \o Comps(SubSeq(p, n + 1, Len(p)))

\* the tree: which inodes are directories, and the child of a directory by name
TreeIsDir(inum) == inum \in 1 .. Len(PathTree)
TreeChild(inum, elem) ==
  IF NameKey(PathTree[inum][2]) = NameKey(elem) THEN PathTree[inum][1] ELSE 0

\* the inode reached from inum along the elements cs; 0 when an element is
\* missing or looked up in an inode that is not a directory
RECURSIVE TreeWalk(_, _)
TreeWalk(inum, cs) ==
  IF inum = 0 \/ cs = <<>> THEN inum
  ELSE IF ~TreeIsDir(inum) THEN 0
  ELSE TreeWalk(TreeChild(inum, Head(cs)), Tail(cs))

\* where a path starts
TreeStart(path) == IF path # <<>> /\ Head(path) = Slash THEN ROOTINO ELSE CwdInum

\* the inode a path names, and the directory that holds its last element
TreeNamei(path) == TreeWalk(TreeStart(path), Comps(path))
TreeParent(path) ==
  LET cs == Comps(path)
      d == TreeWalk(TreeStart(path), SubSeq(cs, 1, Len(cs) - 1))
  IN IF cs # <<>> /\ d # 0 /\ TreeIsDir(d) THEN d ELSE 0

\* the inode number of the handle that the call recorded in last' returned, 0 for
\* a null pointer
Returned == IF last'.r = NoSlot THEN 0 ELSE icache'[last'.r].inum

C17_ResolveStep ==
  last'.op = "namex" /\ Comps(last'.path) # <<>> =>
    /\ panicked' = NoPanic
    /\ Returned = (IF last'.parent THEN TreeParent(last'.path) ELSE TreeNamei(last'.path))
    /\ last'.path = PathAbbc /\ ~last'.parent => Returned = 4
    /\ last'.path = PathAbbc /\ last'.parent =>
         /\ Returned = 3
         /\ ~SleepLocked(ilk', last'.r)
         /\ last'.name = <<CharC, 0>>
    /\ last'.path \in {PathMissing, PathNotDir} => Returned = 0

\* C17: in the tree /a/bb/c, namei("/a/bb/c") returns the handle of c;
\* nameiparent("/a/bb/c", name) returns the handle of bb, unlocked, with name set to
\* "c"; the resolution returns 0 when an element before the last is missing or is
\* not a directory.
C17_Resolves == [][C17_ResolveStep]_vars

\* C17 happens: nameiparent("/a/bb/c", name), called with "bb" left in name[], has
\* returned bb and set name to "c"
C17_Witness ==
  /\ last.op = "namex" /\ last.path = PathAbbc /\ last.parent
  /\ last.buf = <<2, 2>> /\ last.name = <<CharC, 0>>
  /\ last.r # NoSlot /\ icache[last.r].inum = 3 /\ icache[last.r].ref = 1
  /\ pc[1] = "namex_have"

\* the call recorded in last' resolved a path without elements: "" or slashes only
EmptyCall == last'.op = "namex" /\ last'.path \in {<<>>, PathSlashes}

C18_StatedStep == EmptyCall => Returned = 0 /\ RefsNow(icache') = last'.refs

\* C18 as stated: resolve("", stop_before_last) and resolve("////", stop_before_last)
\* return 0 for both values of stop_before_last and leave every reference count as
\* before the call.
C18_Stated == [][C18_StatedStep]_vars

C18_EmptyStep ==
  EmptyCall =>
    IF last'.parent
    THEN Returned = 0 /\ RefsNow(icache') = last'.refs
    ELSE /\ Returned = TreeStart(last'.path)
         /\ RefsNow(icache') = [last'.refs EXCEPT ![Returned] = @ + 1]
         /\ ~SleepLocked(ilk', last'.r)

\* C18: nameiparent("", name) and nameiparent("////", name) return 0 and leave
\* every reference count as before the call; namei("") returns the handle of the
\* current directory and namei("////") the handle of the root (from iget, which
\* needs a cache slot for it), unlocked, with that inode's reference count one
\* higher and every other count as before.
C18_EmptyPaths == [][C18_EmptyStep]_vars

\* C18 happens: namei("////") has returned the root
C18_Witness ==
  /\ last.op = "namex" /\ last.path = PathSlashes /\ ~last.parent
  /\ last.r # NoSlot /\ icache[last.r].inum = ROOTINO /\ icache[last.r].ref = 1
  /\ RefOf(icache, CwdInum) = last.refs[CwdInum]

C19_ReturnStep ==
  last'.op = "namex" =>
    /\ IF last'.r # NoSlot
       THEN RefsNow(icache') = [last'.refs EXCEPT ![Returned] = @ + 1]
       ELSE RefsNow(icache') = last'.refs
    /\ \A s \in Slots : ilk'[s] # last'.ctx

\* C19: for every path and both modes, when namex returns a handle, that inode's
\* reference count is exactly one higher than before the call and every other
\* inode's count is as before; when it returns 0 every inode's count is as before;
\* in both cases the caller holds no inode lock.
C19_RefsBalanced == [][C19_ReturnStep]_vars

\* C19 happens: namei("/a/a/c") took the root and a, found no second a, and
\* returned 0 having given both handles back
C19_Witness ==
  /\ last.op = "namex" /\ last.path = PathMissing /\ ~last.parent
  /\ last.r = NoSlot /\ last.refs[ROOTINO] = 0
  /\ RefOf(icache, ROOTINO) = 0 /\ RefOf(icache, CwdInum) = last.refs[CwdInum]
  /\ \A s \in Slots : ilk[s] = NoCtx

\* the inode locks that context c holds
LocksOf(c) == {s \in Slots : ilk[s] = c}

\* context c is in acquiresleep (of ilock or of iput) for a lock that d holds
WaitsFor(c, d) ==
  /\ pc[c] \in {"namex_ilock", "namex_iput"}
  /\ ilk[loc[c].ip] = d

\* C20: during path resolution a context never holds two inode locks at the same
\* time, the iput of the parent after the lookup of the child included, and no set
\* of resolving contexts waits in a circle for inode locks that its members hold.
C20_OneLockAtATime ==
  /\ \A c \in Ctx : Cardinality(LocksOf(c)) <= 1
  /\ \A S \in (SUBSET Ctx) \ {{}} : \E c \in S : \A d \in S : ~WaitsFor(c, d)

\* C20 happens: one context is inside the iput of a parent whose child it has
\* looked up, holding the parent's lock, while another waits in ilock for it
C20_Witness ==
  \E c, d \in Ctx :
    /\ c # d
    /\ pc[c] = "namex_iput_unlock" /\ loc[c].after = "loop" /\ loc[c].next # NoSlot
    /\ LocksOf(c) = {loc[c].ip}
    /\ WaitsFor(d, c) /\ pc[d] = "namex_ilock"

(***************************************************************************)
(* Claims about the bitmap.                                                *)
(***************************************************************************)
\* the blocks below sb.size whose bit is clear
FreeBlocks == {b \in Blocks : ~bitmap[b]}

C21_BallocStep ==
  last'.op = "balloc" =>
    IF FreeBlocks = {}
    THEN panicked' = "balloc: out of blocks" /\ bitmap' = bitmap /\ disk' = disk
    ELSE /\ panicked' = NoPanic
         /\ last'.r \in FreeBlocks /\ \A b \in FreeBlocks : last'.r <= b
         /\ bitmap' = [bitmap EXCEPT ![last'.r] = TRUE]
         /\ disk'[last'.r] = ZeroBlock
         /\ last.op = "bfree" /\ (\A b \in FreeBlocks : last.b <= b) => last'.r = last.b

\* C21: balloc returns the lowest-numbered block below sb.size whose bit is clear,
\* sets that bit and no other, and the block is all zeros when it returns; the
\* balloc after bfree(b) returns b when b is the lowest free block; balloc panics
\* when no bit is clear.
C21_BallocLowest == [][C21_BallocStep]_vars

\* C21 happens: the first block of the second bitmap block, freed while the block
\* above it stayed in use, is returned again by balloc, zeroed, after a scan that
\* released the first bitmap block
C21_Witness ==
  /\ last.op = "balloc" /\ last.r = BPB /\ disk[BPB] = ZeroBlock
  /\ bitmap[BPB] /\ bitmap[BPB + 1] /\ \A b \in Blocks : b < BPB => bitmap[b]
  /\ <<"brelse", BitsBmapStart>> \in Range(last.ev)

C22_BfreeStep ==
  last'.op = "bfree" =>
    IF ~bitmap[last'.b]
    THEN panicked' = "freeing free block" /\ bitmap' = bitmap /\ disk' = disk
    ELSE /\ panicked' = NoPanic
         /\ bitmap' = [bitmap EXCEPT ![last'.b] = FALSE]
         /\ \A k \in Blocks, i \in 0 .. (BSIZE - 1) :
              disk'[k][i] =
                IF k = BBLOCK(last'.b, sb) /\ i = (last'.b % BPB) \div 8
                THEN disk[k][i] - BitMask(last'.b)
                ELSE disk[k][i]

\* C22: bfree(dev, b) on a block whose bit is clear panics and leaves the bitmap
\* as it was; on a block whose bit is set it clears that bit and leaves every
\* other bit, of every bitmap byte, as it was.
C22_BfreeOneBit == [][C22_BfreeStep]_vars

\* C22 happens: a block was freed whose neighbours in the same bitmap byte stay
\* in use
C22_Witness ==
  /\ last.op = "bfree" /\ last.b = BitsLow + 1 /\ panicked = NoPanic
  /\ ~bitmap[BitsLow + 1] /\ bitmap[BitsLow] /\ bitmap[BitsLow + 2]

(***************************************************************************)
(* Claims at the geometry of fs.h.                                         *)
(***************************************************************************)
\* ceil(n / BSIZE)
RealBlocksOf(n) == (n + RealBSIZE - 1) \div RealBSIZE

\* the entries 0 .. NINDIRECT-1 of the index block blk are nonzero exactly for
\* the logical blocks base + j below need
RealIndexFilled(d, blk, base, need) ==
  \A j \in 0 .. (RealNINDIRECT - 1) : (ReadUint(d[blk], j) # 0) <=> (base + j < need)

\* the map of an inode holds exactly the logical blocks below need: direct slots,
\* the single-indirect block, the double-indirect block and its inner index blocks
RealMapsExactly(d, addrs, need) ==
  /\ \A i \in 0 .. (RealNDIRECT - 1) : (addrs[i] # 0) <=> (i < need)
  /\ (addrs[RealNDIRECT] # 0) <=> (need > RealNDIRECT)
  /\ addrs[RealNDIRECT] # 0 => RealIndexFilled(d, addrs[RealNDIRECT], RealNDIRECT, need)
  /\ (addrs[RealNDIRECT + 1] # 0) <=> (need > RealNDIRECT + RealNINDIRECT)
  /\ addrs[RealNDIRECT + 1] # 0 =>
       \A o \in 0 .. (RealNINDIRECT - 1) :
          /\ (ReadUint(d[addrs[RealNDIRECT + 1]], o) # 0)
               <=> (RealNDIRECT + RealNINDIRECT + o * RealNINDIRECT < need)
          /\ ReadUint(d[addrs[RealNDIRECT + 1]], o) # 0 =>
               RealIndexFilled(d, ReadUint(d[addrs[RealNDIRECT + 1]], o),
                               RealNDIRECT + RealNINDIRECT + o * RealNINDIRECT, need)

\* the index blocks a file of need blocks has
RealIndexBlocks(need) ==
  (IF need > RealNDIRECT THEN 1 ELSE 0)
    + (IF need > RealNDIRECT + RealNINDIRECT
       THEN 1 + (need - RealNDIRECT - RealNINDIRECT + RealNINDIRECT - 1) \div RealNINDIRECT
       ELSE 0)

C23_WriteStep ==
  last'.op = "writei" /\ icache[0].ino = [RealZeroDinode EXCEPT !.type = T_FILE, !.nlink = 1] =>
    /\ panicked' = NoPanic /\ last'.r = last'.n
    /\ icache'[0].ino.size = last'.n
    /\ RealMapsExactly(disk', icache'[0].ino.addrs, RealBlocksOf(last'.n))
    /\ Cardinality({b \in Blocks : bitmap'[b]}) - Cardinality({b \in Blocks : bitmap[b]})
         = RealBlocksOf(last'.n) + RealIndexBlocks(RealBlocksOf(last'.n))
    /\ last'.n = 2000 =>
         /\ \A i \in 0 .. 3 : icache'[0].ino.addrs[i] # 0
         /\ \A i \in 4 .. 12 : icache'[0].ino.addrs[i] = 0
    /\ RealBlocksOf(last'.n) = RealNDIRECT + RealNINDIRECT + 5 + 1 =>
         /\ icache'[0].ino.addrs[RealNDIRECT + 1] # 0
         /\ \A o \in 0 .. (RealNINDIRECT - 1) :
              (ReadUint(disk'[icache'[0].ino.addrs[RealNDIRECT + 1]], o) # 0) <=> (o = 0)
         /\ \A j \in 0 .. (RealNINDIRECT - 1) :
              (ReadUint(disk'[ReadUint(disk'[icache'[0].ino.addrs[RealNDIRECT + 1]], 0)], j) # 0)
                <=> (j <= 5)

\* C23: with BSIZE = 512 and NDIRECT = 11, writei of n bytes at offset 0 to an
\* inode just allocated leaves size = n and exactly ceil(n/512) data blocks, mapped
\* at the logical indices 0 .. ceil(n/512)-1, every higher slot zero; for n = 2000
\* addrs[0..3] are nonzero and addrs[4..12] are 0; the single-indirect block is
\* allocated exactly when more than NDIRECT blocks are needed; a write that reaches
\* logical block NDIRECT+NINDIRECT+5 allocates the double-indirect block and one
\* inner index block, at outer index 0, whose entries 0..5 are the only ones set.
C23_RealGeometry == [][C23_WriteStep]_vars

\* C23 happens: a write of 145 blocks has reached logical block
\* NDIRECT+NINDIRECT+5
C23_Witness ==
  /\ last.op = "writei" /\ last.n = RealBSIZE * (RealNDIRECT + RealNINDIRECT + 6)
  /\ icache[0].ino.size = last.n
  /\ icache[0].ino.addrs[RealNDIRECT + 1] # 0
  /\ ReadUint(disk[ReadUint(disk[icache[0].ino.addrs[RealNDIRECT + 1]], 0)], 5) # 0

(***************************************************************************)
(* Claims about what reaches the disk.                                     *)
(***************************************************************************)
\* C24: whenever writei or itrunc has returned without a panic to the holder of
\* the inode's lock, the on-disk inode equals the cached one in type, major,
\* minor, nlink, size and every address slot: each slot that bmap filled during
\* the write was persisted by the iupdate that follows the loop.
C24_WriteThrough ==
  (panicked = NoPanic /\ last.op \in {"writei", "itrunc"}) =>
     dinode[icache[last.slot].inum] = icache[last.slot].ino

\* C24 happens: a write that returned its length has filled the direct slot and
\* both indirect slots, and the disk holds the same three addresses
C24_Witness ==
  /\ panicked = NoPanic /\ last.op = "writei" /\ last.r > 0
  /\ \A i \in AddrIdx : icache[last.slot].ino.addrs[i] # 0
  /\ dinode[icache[last.slot].inum].addrs = icache[last.slot].ino.addrs

\* how many of the calls ev[1..i] are the call op on buffer b
BufCount(ev, i, op, b) == Cardinality({j \in 1 .. i : ev[j] = <<op, b>>})

\* buffer b is held after the calls ev[1..i]: read once more than released
BufHeld(ev, i, b) == BufCount(ev, i, "bread", b) - BufCount(ev, i, "brelse", b)

\* the calls of one operation are in order: bread takes a buffer that is not
\* held, every store, log_write and brelse is on a held buffer, a store is
\* followed by log_write before the buffer's next brelse, and nothing is held at
\* the end unless the operation ended in a panic
BufInOrder(ev, fatal) ==
  /\ \A i \in 1 .. Len(ev) :
       BufHeld(ev, i - 1, ev[i][2]) = (IF ev[i][1] = "bread" THEN 0 ELSE 1)
  /\ \A j \in 1 .. Len(ev) : \A i \in (j + 1) .. Len(ev) :
       (ev[j][1] = "write" /\ ev[i] = <<"brelse", ev[j][2]>>) =>
          \E k \in (j + 1) .. (i - 1) : ev[k] = <<"log_write", ev[j][2]>>
  /\ fatal \/ \A i \in 1 .. Len(ev) : BufHeld(ev, Len(ev), ev[i][2]) = 0

\* C25: in bzero, balloc, bfree, ialloc, iupdate, bmap and writei (and itrunc,
\* which calls bfree), every buffer whose content was changed is passed to
\* log_write before it is released with brelse, and every buffer obtained with
\* bread is released exactly once on every path that does not end in a panic.
C25_LoggedBeforeRelease ==
  last.op \in {"writei", "itrunc", "ialloc"} =>
     BufInOrder(last.ev, panicked # NoPanic)

\* C25 happens: a write has stored a new inner index block into the
\* double-indirect block, logged it and released it, and has ended with iupdate
C25_Witness ==
  /\ last.op = "writei" /\ panicked = NoPanic
  /\ icache[last.slot].ino.addrs[NDIRECT + 1] # 0
  /\ \E i \in 1 .. (Len(last.ev) - 2) :
       /\ last.ev[i] = <<"write", icache[last.slot].ino.addrs[NDIRECT + 1]>>
       /\ last.ev[i + 1] = <<"log_write", icache[last.slot].ino.addrs[NDIRECT + 1]>>
       /\ last.ev[i + 2] = <<"brelse", icache[last.slot].ino.addrs[NDIRECT + 1]>>
  /\ last.ev[Len(last.ev)] = <<"brelse", InodeBuf>>

(***************************************************************************)
(* SpecRead: one directory, locked by its caller, that is written and      *)
(* truncated through all three tiers of its block map, read with readi and *)
(* searched with dirlookup.  The bytes written make entries that no name   *)
(* looked up matches, so that dirlookup reads the directory to its end.    *)
(***************************************************************************)
ReadLens == {SizeofDirent, BSIZE, WriteiCeiling}
ReadOffs == {0, (NDIRECT + NINDIRECT) * BSIZE}
\* the names looked up: "a" and "ab"
ReadPaths == {<<1>>, <<1, 2>>}

\* a call of readi by the holder of the lock
ReadDoReadi(off, n) ==
  /\ panicked = NoPanic /\ pc[1] = "idle"
  /\ \E m \in {Readi(Machine(DirSlot), off, n, 0)} :
        Store(DirSlot, m, [op |-> "readi", off |-> off, n |-> n, r |-> m.r])

\* a call of writei by the holder of the lock
ReadDoWritei(v, off, n) ==
  /\ panicked = NoPanic /\ pc[1] = "idle"
  /\ \E m \in {Writei(Machine(DirSlot), v, off, n)} :
        Store(DirSlot, m, [op |-> "writei", off |-> off, n |-> n, r |-> m.r])

\* a call of itrunc by the holder of the lock
ReadDoItrunc ==
  /\ panicked = NoPanic /\ pc[1] = "idle"
  /\ \E m \in {Itrunc(Machine(DirSlot))} : Store(DirSlot, m, [op |-> "itrunc"])

InitRead ==
  /\ InitVolume(OneFsSize, NInodes)
  /\ dinode = [i \in 1 .. (NInodes - 1) |-> IF i = ROOTINO THEN DirDinode ELSE FileDinode]
  /\ icache = [s \in 0 .. (NINODE - 1) |->
                 IF s = DirSlot
                 THEN [dev |-> ROOTDEV, inum |-> ROOTINO, ref |-> 1, valid |-> 1,
                       ino |-> DirDinode]
                 ELSE ZeroInode]
  /\ ilk = [s \in 0 .. (NINODE - 1) |-> IF s = DirSlot THEN 1 ELSE NoCtx]
  /\ held = [c \in Ctx |-> [s \in 0 .. (NINODE - 1) |-> IF c = 1 /\ s = DirSlot THEN 1 ELSE 0]]
  /\ loaded = [s \in 0 .. (NINODE - 1) |-> s = DirSlot]

NextRead ==
  \/ \E v \in SrcVals : \E off \in WriteOffs(icache[DirSlot].ino.size), n \in ReadLens :
       ReadDoWritei(v, off, n)
  \/ ReadDoItrunc
  \/ \E off \in ReadOffs \cup {icache[DirSlot].ino.size}, n \in {SizeofDirent, WriteiCeiling} :
       ReadDoReadi(off, n)
  \/ \E path \in ReadPaths : DirDoLookup(path, <<0, 0>>)

SpecRead == InitRead /\ [][NextRead]_vars

(***************************************************************************)
(* The process size and the lazy allocation of its pages: sys_sbrk of      *)
(* sysproc.c and the default branch of trap of trap.c.  proc.pgdir maps    *)
(* the base address of each present page to what the page holds.  exec,    *)
(* growproc, kalloc, kfree and mappages are not in these files: they are   *)
(* taken from the comments of sysproc.c and trap.c that describe them.     *)
(***************************************************************************)
PGSIZE == 4096
T_PGFLT == 14
T_GPFLT == 13
DPL_USER == 3

\* PGROUNDDOWN(a)
PGROUNDDOWN(a) == a - (a % PGSIZE)

\* the value of the uint x converted to int (int addr = myproc()->sz)
Int32(x) == IF x >= UintRange \div 2 THEN x - UintRange ELSE x

\* growproc(n) for n < 0, as sys_sbrk's comment describes it: it returns -1 and
\* leaves the size alone when it fails (ok = FALSE), and otherwise shrinks the
\* process by -n bytes, the pages that lie wholly above the new size being
\* unmapped and their frames freed
Growproc(p, k, n, ok) ==
  IF ~ok THEN [proc |-> p, kmem |-> k, r |-> -1]
  ELSE [proc |-> [p EXCEPT !.sz = U32(p.sz + n),
                           !.pgdir = [a \in {b \in DOMAIN p.pgdir : b < U32(p.sz + n)} |-> p.pgdir[a]]],
        kmem |-> k + Cardinality({b \in DOMAIN p.pgdir : b >= U32(p.sz + n)}),
        r |-> 0]

\* sys_sbrk after growproc returned g, addr being the size saved before it
SysSbrkShrunk(g, addr) == IF g.r < 0 THEN g ELSE [g EXCEPT !.r = addr]

\* sys_sbrk with the argument n: addr = myproc()->sz; if(n < 0) growproc(n),
\* else myproc()->sz += n; return addr
SysSbrk(p, k, n, ok) ==
  IF n < 0 THEN SysSbrkShrunk(Growproc(p, k, n, ok), Int32(p.sz))
  ELSE [proc |-> [p EXCEPT !.sz = U32(p.sz + n)], kmem |-> k, r |-> Int32(p.sz)]

\* myproc()->killed = 1
Killed(p, k) == [proc |-> [p EXCEPT !.killed = 1], kmem |-> k, panic |-> NoPanic]

\* mappages(pgdir, PGROUNDDOWN(rcr2()), PGSIZE, V2P(bloque), PTE_W|PTE_U) on the
\* page that memset has zeroed
Mapped(p, k, cr2) ==
  [proc |-> [p EXCEPT !.pgdir = [a \in DOMAIN p.pgdir \cup {PGROUNDDOWN(cr2)} |->
                                   IF a = PGROUNDDOWN(cr2) THEN "zero" ELSE p.pgdir[a]]],
   kmem |-> k - 1, panic |-> NoPanic]

\* trap, lines 201-227 and again 240-267: the guard page kills; kalloc, which
\* returns 0 when no frame is free, kills; the page is zeroed and mapped, and a
\* failure of mappages (mapok = FALSE) kills after kfree(bloque)
TrapAlloc(p, k, cr2, mapok) ==
  IF PGROUNDDOWN(cr2) = p.paginaInvalida THEN Killed(p, k)
  ELSE IF k = 0 THEN Killed(p, k)
  ELSE IF ~mapok THEN Killed(p, k)
  ELSE Mapped(p, k, cr2)

\* trap, the default case of the switch, for the trap number trapno taken with
\* the privilege level cpl = tf->cs & 3 and the address cr2 = rcr2(); onproc
\* says that myproc() is not 0
Trap(p, k, trapno, cpl, cr2, mapok, onproc) ==
  IF ~onproc THEN [proc |-> p, kmem |-> k, panic |-> "trap"]
  ELSE IF cpl = 0 THEN TrapAlloc(p, k, cr2, mapok)
  ELSE IF trapno = T_PGFLT THEN TrapAlloc(p, k, cr2, mapok)
  ELSE Killed(p, k)

(***************************************************************************)
(* SpecLazy: one process that calls sbrk and takes traps.  exec has left   *)
(* it with one page of text and data, the inaccessible page below the      *)
(* stack, recorded in paginaInvalida, and one page of stack.  A killed     *)
(* process leaves at the end of trap or of its system call and takes no    *)
(* further step.                                                           *)
(***************************************************************************)
LazyMaxPages == 4
LazyFrames == 2

\* sbrk(LazyBig) twice wraps the size around the width of uint
LazyBig == UintRange \div 2 - PGSIZE
SbrkArgs == {-PGSIZE, 0, 1, PGSIZE, LazyBig}

LazySmall(sz) == sz >= 0 /\ sz <= LazyMaxPages * PGSIZE + 1

\* the calls taken up: the size stays within LazyMaxPages pages of 0 or of LazyBig
SbrkFits(n) ==
  IF n = LazyBig THEN LazySmall(proc.sz) \/ LazySmall(proc.sz - LazyBig)
  ELSE /\ LazySmall(proc.sz) /\ LazySmall(proc.sz + n)
       /\ n = 1 => proc.sz % PGSIZE = 0

\* the addresses a trap is taken up with: on a page that is not present, or on
\* the inaccessible page
TrapAddrs ==
  {a \in {pg * PGSIZE + d : pg \in 0 .. (LazyMaxPages + 1), d \in {8}} :
     PGROUNDDOWN(a) \notin DOMAIN proc.pgdir \/ proc.pgdir[PGROUNDDOWN(a)] = "guard"}

LazyStore(x, l) ==
  /\ proc' = x.proc
  /\ kmem' = x.kmem
  /\ last' = l
  /\ UNCHANGED <<sb, bitmap, disk, dinode, icache, ilk, cvars>>

\* a call of sbrk(n)
LazySbrk(n, ok) ==
  /\ panicked = NoPanic /\ proc.killed = 0
  /\ SbrkFits(n)
  /\ n >= 0 => ok
  /\ \E x \in {SysSbrk(proc, kmem, n, ok)} :
        /\ LazyStore(x, [op |-> "sys_sbrk", n |-> n, r |-> x.r])
        /\ UNCHANGED panicked

\* a trap that reaches the default case
LazyTrap(trapno, cpl, cr2, mapok, onproc) ==
  /\ panicked = NoPanic /\ proc.killed = 0
  /\ \E x \in {Trap(proc, kmem, trapno, cpl, cr2, mapok, onproc)} :
        /\ LazyStore(x, [op |-> "trap", trapno |-> trapno, cpl |-> cpl, cr2 |-> cr2])
        /\ panicked' = x.panic

InitLazy ==
  /\ proc = [sz |-> 3 * PGSIZE, killed |-> 0, paginaInvalida |-> PGSIZE,
             pgdir |-> [a \in {0, PGSIZE, 2 * PGSIZE} |-> IF a = PGSIZE THEN "guard" ELSE "data"]]
  /\ kmem = LazyFrames
  /\ sb = [size |-> FsSize, ninodes |-> NInodes]
  /\ bitmap = [b \in 0 .. (FsSize - 1) |-> FALSE]
  /\ disk = [b \in 0 .. (FsSize - 1) |-> ZeroBlock]
  /\ dinode = [i \in 1 .. (NInodes - 1) |-> ZeroDinode]
  /\ icache = [s \in 0 .. (NINODE - 1) |-> ZeroInode]
  /\ ilk = [s \in 0 .. (NINODE - 1) |-> NoCtx]
  /\ panicked = NoPanic
  /\ last = [op |-> "none"]
  /\ pc = [c \in Ctx |-> "idle"]
  /\ loc = [c \in Ctx |-> NoLocals]
  /\ held = [c \in Ctx |-> [s \in 0 .. (NINODE - 1) |-> 0]]
  /\ loaded = [s \in 0 .. (NINODE - 1) |-> FALSE]
  /\ buflock = NoCtx
  /\ owned = [c \in Ctx |-> {}]

NextLazy ==
  \/ \E n \in SbrkArgs, ok \in BOOLEAN : LazySbrk(n, ok)
  \/ \E trapno \in {T_PGFLT, T_GPFLT}, cpl \in {0, DPL_USER}, cr2 \in TrapAddrs :
       \E mapok \in BOOLEAN, onproc \in BOOLEAN : LazyTrap(trapno, cpl, cr2, mapok, onproc)

SpecLazy == InitLazy /\ [][NextLazy]_vars

(***************************************************************************)
(* Claims about the process size and the lazy allocation                   *)
(***************************************************************************)
\* C26: sys_sbrk(n) returns the size the process had before the call; for
\* n >= 0 the size grows by exactly n and no page is allocated or mapped; for
\* n < 0 it is growproc's call, and -1 is returned with the size unchanged when
\* growproc fails.
C26_SbrkStep ==
  last'.op = "sys_sbrk" =>
     /\ last'.n >= 0 =>
          /\ U32(last'.r) = proc.sz
          /\ proc'.sz = proc.sz + last'.n
          /\ proc'.pgdir = proc.pgdir /\ kmem' = kmem
     /\ last'.n < 0 =>
          \/ last'.r = -1 /\ proc'.sz = proc.sz
          \/ U32(last'.r) = proc.sz /\ proc'.sz = proc.sz + last'.n

C26_SbrkGrows == [][C26_SbrkStep]_vars

(***************************************************************************)
(* Claims about dirlink and the caller's own lock                          *)
(***************************************************************************)
\* C27: dirlink(dp, name, inum), called by a context that holds dp's lock,
\* always returns 0 or -1 and never waits for a sleep-lock that the calling
\* context holds itself, whatever the name, the name of an entry that refers
\* to dp itself included.
C27_DirlinkReturns ==
  /\ \A c \in Ctx : pc[c] = "iput_acquire" => ilk[loc[c].ip] # c
  /\ (last.op = "dirlink" /\ panicked = NoPanic) => (last.returned /\ last.r \in {0, -1})

(***************************************************************************)
(* Claims about reads                                                      *)
(***************************************************************************)
\* the blocks of a file of size bytes
BlocksOf(size) == (size + BSIZE - 1) \div BSIZE

\* every logical block below ceil(size/BSIZE) of the directory has an address
C28_Mapped ==
  \A bn \in 0 .. (BlocksOf(icache[DirSlot].ino.size) - 1) :
     Lookup(disk, icache[DirSlot].ino.addrs, bn) # 0

C28_ReadStep ==
  last'.op \in {"readi", "dirlookup"} =>
     /\ bitmap' = bitmap /\ disk' = disk /\ dinode' = dinode
     /\ icache'[DirSlot].ino = icache[DirSlot].ino

\* C28: in an inode changed by writei and itrunc only, every logical block below
\* ceil(size/BSIZE) has a nonzero address before and after every step; readi and
\* dirlookup therefore allocate nothing: they leave the bitmap, the address
\* table, every block (the index blocks among them) and the on-disk inode as
\* they were.
C28_ReadsAllocateNothing == [][C28_Mapped /\ C28_Mapped' /\ C28_ReadStep]_vars

\* C28 happens: dirlookup has searched a directory that fills all three tiers
\* to its end without finding the name
C28_Witness ==
  /\ icache[DirSlot].ino.size = WriteiCeiling
  /\ last.op = "dirlookup" /\ last.ok /\ last.returned /\ last.h = NoSlot
  /\ panicked = NoPanic

(***************************************************************************)
(* Claims about the trap handler                                           *)
(***************************************************************************)
\* the trap recorded in last' is a page fault below the size of the process and
\* not on the inaccessible page
FaultBelowSz ==
  /\ last'.trapno = T_PGFLT
  /\ last'.cr2 < proc.sz
  /\ PGROUNDDOWN(last'.cr2) # proc.paginaInvalida

C29_TrapStep ==
  last'.op = "trap" =>
     /\ proc'.pgdir # proc.pgdir => FaultBelowSz
     /\ ~FaultBelowSz =>
          /\ proc'.pgdir = proc.pgdir /\ kmem' = kmem
          /\ proc'.killed = 1 \/ panicked' # NoPanic

\* C29: trap allocates and maps a new zeroed page only for a page fault whose
\* address is below myproc()->sz and not on the guard page below the stack; a
\* fault on the guard page, a fault at or above sz and every trap that is not a
\* page fault set killed = 1 (or panic in kernel mode) and map nothing.
C29_MapsOnlyBelowSz == [][C29_TrapStep]_vars

====
